---- MODULE Spec2Model ----
(***************************************************************************)
(* Model of the tiered clipboard cache of kissesu/oicopy                   *)
(* (src/utils/ClipboardCacheManager.js, src/utils/CacheTypes.js).          *)
(*                                                                         *)
(* Representation.  A cached record is a JavaScript object that the tiers  *)
(* share by reference.  An object is created only by _enhanceRecord, and   *)
(* it is inserted only when no tier holds its id (_recordExists), so at    *)
(* any time the cache holds at most one object per id: the object is       *)
(* identified by its id.  The model keeps the objects in the heap          *)
(* `records` (id -> fields) and the tiers as sequences of ids:             *)
(*   favoriteRecords, hotRecords  Map keys in insertion order              *)
(*   normalRecords                the array (an id may occur twice when    *)
(*                                the same object was inserted twice)      *)
(*   lruOrder                     the array of ids                         *)
(* A mutation of an object is then seen through every tier that holds it,  *)
(* as in the code.                                                         *)
(***************************************************************************)
EXTENDS Integers, Sequences, FiniteSets, TLC

VARIABLES
    favoriteRecords,  \* this.favoriteRecords: the Map's keys, in insertion order
    hotRecords,       \* this.hotRecords: the Map's keys, in insertion order
    normalRecords,    \* this.normalRecords: the array, as ids
    lruOrder,         \* this.lruOrder
    records,          \* the record objects the tiers hold, by id
    fifoCounter,      \* this.fifoCounter
    totalRecords,     \* this.stats.totalRecords
    hung,             \* an operation entered a loop that never ends
    lastOutcome,      \* what the last operation did (history, for the witnesses)
    tasks,            \* the task objects of the sync queue, by id
    queue,            \* this.queue, as task ids
    pendingBatch,     \* this.batchState.pendingBatch, as task ids
    inFlight,         \* the batch processSyncQueue is awaiting, as task ids
    processing,       \* this.processing
    taskIdCounter,    \* this.taskIdCounter
    coalescingMap,    \* this.coalescingMap: key -> task id
    retryTimers,      \* the tasks with a retry timer pending
    errorState,       \* this.errorState
    manualRetries,    \* successful retryTask calls so far (history, for the bound)
    paused,           \* this.paused
    forceSyncCall,    \* the forceSync call under way: its saved flag, its batch, its result
    undispatched,     \* tasks queued when forceSync was called and not dispatched since (history)
    cleared,          \* tasks that were waiting when clearQueue was called (history)
    outOfBand,        \* the batches _processHighPriorityTasks started and nobody awaits
    delayCalls,       \* the last two calls of _calculateRetryDelay: arguments and result
    status,           \* PreloadService: this.status
    progressiveState, \* PreloadService: this.progressiveState
    preloadErrorState,\* PreloadService: this.errorState
    preloadCall,      \* PreloadService: the continuation pending (fetch awaited, timer set)
    preloadReturn,    \* what the last startPreload / recoverPreload call resolved to
    preloadEvents,    \* the events PreloadService has emitted (history)
    recoveryTimer,    \* the timer of _handlePreloadError is set
    insertedRecords   \* records the phases put into the cache since _resetStatus (history)

vars == <<favoriteRecords, hotRecords, normalRecords, lruOrder, records,
          fifoCounter, totalRecords, hung, lastOutcome,
          tasks, queue, pendingBatch, inFlight, processing, taskIdCounter,
          coalescingMap, retryTimers, errorState, manualRetries,
          paused, forceSyncCall, undispatched, cleared, outOfBand, delayCalls,
          status, progressiveState, preloadErrorState, preloadCall, preloadReturn,
          preloadEvents, recoveryTimer, insertedRecords>>

preloadVars == <<status, progressiveState, preloadErrorState, preloadCall, preloadReturn,
                 preloadEvents, recoveryTimer, insertedRecords>>

cacheVars == <<favoriteRecords, hotRecords, normalRecords, lruOrder, records,
               fifoCounter, totalRecords, hung, lastOutcome>>

queueVars == <<tasks, queue, pendingBatch, inFlight, processing, taskIdCounter,
               coalescingMap, retryTimers, errorState, manualRetries,
               paused, forceSyncCall, undispatched, cleared, outOfBand>>

(***************************************************************************)
(* The instance modelled: new ClipboardCacheManager(maxSize,               *)
(* favoriteLimit, hotLimit), and the bounds of the exploration.            *)
(***************************************************************************)
maxSize == 2
favoriteLimit == 1
hotLimit == 1

\* ids are 0..MaxId (the validator accepts any number, 0 included)
MaxId == 2
\* records created (fifoCounter) between two clearCache calls
MaxFifo == 3
\* recordAccess is not issued once access_count has reached MaxAccess
MaxAccess == 4
\* longest batch passed to appendRecords
MaxBatch == 2
\* largest explicit targetReduction passed to evictByStrategy
MaxTarget == 1

\* optimizeForBackground keeps 10 hot and 20 normal records (lines 433-434);
\* the model scales both thresholds down to the size of its tiers.
keepHotMax == 1
keepNormalMax == 1

\* _evictExpiredNormalRecords: expireTime is 24 h, one unit of the model's
\* clock.  The code reads the clock only in the difference now - cached_at
\* and compares it with expireTime, so the model keeps the clock relative:
\* Date.now() always reads `now`, and when more than expireTime passes
\* (Tick) every record's cached_at moves back to 0.
expireTime == 1
now == expireTime + 1

Ids == 0..MaxId
InvalidTimestamp == 0
Null == -1

(***************************************************************************)
(* Sequence helpers (Array / Map primitives).                              *)
(***************************************************************************)
Range(s) == {s[i] : i \in 1..Len(s)}

Min(a, b) == IF a < b THEN a ELSE b

Max(a, b) == IF a > b THEN a ELSE b

\* Array.prototype.indexOf / findIndex by id: first position, 0 when absent
IndexOf(s, x) ==
    IF x \in Range(s) THEN CHOOSE i \in 1..Len(s) : s[i] = x /\ \A j \in 1..(i-1) : s[j] # x
    ELSE 0

\* Array.prototype.splice(index, 1)
RemoveAt(s, i) == SubSeq(s, 1, i-1) \o SubSeq(s, i+1, Len(s))

\* Map.prototype.set on the key order: a new key goes last, a known key stays
MapSet(m, id) == IF id \in Range(m) THEN m ELSE Append(m, id)

\* Map.prototype.delete
MapDelete(m, id) == SelectSeq(m, LAMBDA x : x # id)

\* JavaScript truthiness of an id (lruId && ...): 0 is falsy
Truthy(id) == id # 0

(***************************************************************************)
(* CacheTypes.js: validation and sanitising of an incoming record.         *)
(***************************************************************************)
validTypes == {"text", "html", "image", "files", "rtf"}

validTiers == {"favorite", "hot", "normal"}

validate(record) ==
    /\ record.content_type \in validTypes
    /\ record.timestamp # InvalidTimestamp

_validateTier(tier) == IF tier \in validTiers THEN tier ELSE "normal"

\* the incoming objects of the model carry no cached_at / fifo_order, so
\* sanitize fills in Date.now() (t) and 0
sanitize(record, t) ==
    [ id           |-> record.id,
      timestamp    |-> record.timestamp,
      cached_at    |-> t,
      access_count |-> Max(0, record.access_count),
      is_favorite  |-> record.is_favorite,
      cache_tier   |-> _validateTier(record.cache_tier),
      fifo_order   |-> 0 ]

(***************************************************************************)
(* Records the callers may pass.  The store gives every row one timestamp  *)
(* (two rows may share one).  A well-formed incoming object is a plain     *)
(* row of any id, or the object of StaleId carrying any combination of     *)
(* is_favorite and cache_tier; two more objects are malformed.             *)
(***************************************************************************)
TimestampOf(id) == 1 + (id % 2)

\* the cache fields an incoming object may carry
Kinds == [is_favorite : BOOLEAN, cache_tier : {"undefined", "hot", "favorite"}]

\* the one id whose object may arrive carrying cache fields
StaleId == MaxId

WellFormed ==
    { [ id |-> id, content_type |-> "text", timestamp |-> TimestampOf(id),
        is_favorite |-> FALSE, cache_tier |-> "undefined",
        access_count |-> 0 ] : id \in Ids }
    \cup
    { [ id |-> StaleId, content_type |-> "text", timestamp |-> TimestampOf(StaleId),
        is_favorite |-> k.is_favorite, cache_tier |-> k.cache_tier,
        access_count |-> 0 ] : k \in Kinds }

Malformed ==
    { [ id |-> 1, content_type |-> "bogus", timestamp |-> 1,
        is_favorite |-> FALSE, cache_tier |-> "undefined", access_count |-> 0 ],
      [ id |-> 1, content_type |-> "text", timestamp |-> InvalidTimestamp,
        is_favorite |-> FALSE, cache_tier |-> "undefined", access_count |-> 0 ] }

IncomingRecords == WellFormed \cup Malformed

(***************************************************************************)
(* The cache as one value, so that the private methods are operators from  *)
(* cache to cache.                                                         *)
(***************************************************************************)
Cache ==
    [ favoriteRecords |-> favoriteRecords, hotRecords |-> hotRecords,
      normalRecords |-> normalRecords, lruOrder |-> lruOrder,
      records |-> records, fifoCounter |-> fifoCounter,
      totalRecords |-> totalRecords, hung |-> hung ]

\* ids held by some tier
Held(S) == Range(S.favoriteRecords) \cup Range(S.hotRecords) \cup Range(S.normalRecords)

\* objects no tier refers to any more are garbage
Collect(S) == [S EXCEPT !.records = [id \in Held(S) |-> S.records[id]]]

\* a plausible slip of the duplicate check: the array is not searched
_recordExists_skipsNormal(S, id) ==
    \/ id \in Range(S.favoriteRecords)
    \/ id \in Range(S.hotRecords)

_recordExists(S, id) ==
    \/ id \in Range(S.favoriteRecords)
    \/ id \in Range(S.hotRecords)
    \/ id \in Range(S.normalRecords)

\* _findRecordById returns the object or undefined; the model returns whether
\* it found one (the object is then S.records[id])
_findRecordById(S, recordId) ==
    \/ recordId \in Range(S.favoriteRecords)
    \/ recordId \in Range(S.hotRecords)
    \/ recordId \in Range(S.normalRecords)

_removeFromLRUOrder(S, recordId) ==
    LET index == IndexOf(S.lruOrder, recordId) IN
    IF index # 0 THEN [S EXCEPT !.lruOrder = RemoveAt(@, index)] ELSE S

_updateLRUOrder(S, recordId) ==
    LET S1 == _removeFromLRUOrder(S, recordId)
        l  == <<recordId>> \o S1.lruOrder
    IN  [S1 EXCEPT !.lruOrder = IF Len(l) > hotLimit THEN SubSeq(l, 1, hotLimit) ELSE l]

_removeFromCurrentTier(S, recordId) ==
    IF recordId \in Range(S.favoriteRecords)
    THEN [S EXCEPT !.favoriteRecords = MapDelete(@, recordId)]
    ELSE IF recordId \in Range(S.hotRecords)
    THEN _removeFromLRUOrder([S EXCEPT !.hotRecords = MapDelete(@, recordId)], recordId)
    ELSE LET index == IndexOf(S.normalRecords, recordId) IN
         IF index # 0 THEN [S EXCEPT !.normalRecords = RemoveAt(@, index)] ELSE S

\* the enhanced object; the caller advances fifoCounter (fifoCounter++)
_enhanceRecord(S, record, t) ==
    [ sanitize(record, t) EXCEPT !.cached_at = t, !.fifo_order = S.fifoCounter ]

(***************************************************************************)
(* _evictIfNeeded.  Array.prototype.pop on an empty array returns          *)
(* undefined and changes nothing, so a loop whose condition still holds    *)
(* with its array empty never ends: the call does not return (hung).       *)
(***************************************************************************)
RECURSIVE NormalLoop(_, _)
NormalLoop(S, normalLimit) ==
    IF Len(S.normalRecords) > normalLimit
    THEN IF S.normalRecords = <<>>
         THEN [S EXCEPT !.hung = TRUE]
         ELSE NormalLoop([S EXCEPT !.normalRecords = SubSeq(@, 1, Len(@) - 1),
                                   !.totalRecords = @ - 1], normalLimit)
    ELSE S

RECURSIVE HotLoop(_)
HotLoop(S) ==
    IF Len(S.hotRecords) > hotLimit
    THEN IF S.lruOrder = <<>>
         THEN [S EXCEPT !.hung = TRUE]
         ELSE LET lruId == S.lruOrder[Len(S.lruOrder)]
                  S1    == [S EXCEPT !.lruOrder = SubSeq(@, 1, Len(@) - 1)]
              IN  IF Truthy(lruId) /\ lruId \in Range(S1.hotRecords)
                  THEN HotLoop([S1 EXCEPT !.hotRecords = MapDelete(@, lruId),
                                          !.records[lruId].cache_tier = "normal",
                                          !.normalRecords = Append(@, lruId)])
                  ELSE HotLoop(S1)
    ELSE S

_evictIfNeeded(S) ==
    LET normalLimit == maxSize - Len(S.favoriteRecords) - Len(S.hotRecords)
        S1 == NormalLoop(S, normalLimit)
    IN  IF S1.hung THEN S1 ELSE HotLoop(S1)

(***************************************************************************)
(* evictByStrategy and its three stages.                                   *)
(***************************************************************************)
Expired(S, id, t) == t - S.records[id].cached_at > expireTime /\ S.records[id].access_count < 2

\* returns the cache; the number evicted is the difference of the lengths
_evictExpiredNormalRecords(S, t) ==
    LET kept == SelectSeq(S.normalRecords, LAMBDA id : ~Expired(S, id, t)) IN
    [S EXCEPT !.normalRecords = kept,
              !.totalRecords = @ - (Len(S.normalRecords) - Len(kept))]

\* a plausible slip of the FIFO stage: what the normal tier cannot give is
\* taken from the favorite tier
_evictNormalRecordsByFIFO_takesFavorites(S, targetCount) ==
    LET toEvict == Min(targetCount, Len(S.normalRecords))
        rest    == Min(targetCount - toEvict, Len(S.favoriteRecords))
    IN  [S EXCEPT !.normalRecords = SubSeq(@, 1, Len(@) - toEvict),
                  !.favoriteRecords = SubSeq(@, 1, Len(@) - rest),
                  !.totalRecords = @ - toEvict - rest]

_evictNormalRecordsByFIFO(S, targetCount) ==
    LET toEvict == Min(targetCount, Len(S.normalRecords)) IN
    IF toEvict <= 0 THEN S
    ELSE [S EXCEPT !.normalRecords = SubSeq(@, 1, Len(@) - toEvict),
                   !.totalRecords = @ - toEvict]

\* the loop of _evictHotRecordsByLRU: i counts the iterations left
RECURSIVE LRULoop(_, _)
LRULoop(S, i) ==
    IF i > 0 /\ Len(S.lruOrder) > 0
    THEN LET lruId == S.lruOrder[Len(S.lruOrder)]
             S1    == [S EXCEPT !.lruOrder = SubSeq(@, 1, Len(@) - 1)]
         IN  IF lruId \in Range(S1.hotRecords)
             THEN LRULoop([S1 EXCEPT !.hotRecords = MapDelete(@, lruId),
                                     !.records[lruId].cache_tier = "normal",
                                     !.normalRecords = Append(@, lruId)], i - 1)
             ELSE LRULoop(S1, i - 1)
    ELSE S

_evictHotRecordsByLRU(S, targetCount) ==
    LET toEvict == Min(targetCount, Len(S.hotRecords)) IN
    IF toEvict <= 0 THEN S ELSE LRULoop(S, toEvict)

\* targetReduction = Null stands for the default argument null
evictByStrategy(S, targetReduction, t) ==
    LET target == IF targetReduction = Null
                  THEN Max(0, S.totalRecords - maxSize) ELSE targetReduction
    IN  IF target <= 0 THEN S
        ELSE LET S1 == _evictExpiredNormalRecords(S, t)
                 e1 == Len(S.normalRecords) - Len(S1.normalRecords)
                 S2 == IF e1 < target THEN _evictNormalRecordsByFIFO(S1, target - e1) ELSE S1
                 e2 == e1 + (Len(S1.normalRecords) - Len(S2.normalRecords))
             IN  IF e2 < target THEN _evictHotRecordsByLRU(S2, target - e2) ELSE S2

(***************************************************************************)
(* The public operations.  Each returns the cache it leaves and the value  *)
(* it returns: [S |-> cache, ret |-> BOOLEAN].  When the cache is hung the *)
(* call never returned and ret is meaningless.                             *)
(***************************************************************************)
Put(S, e) ==
    [S EXCEPT !.records = [id \in DOMAIN S.records \cup {e.id} |->
                              IF id = e.id THEN e ELSE S.records[id]]]

prependRecord(S, record, t) ==
    IF ~validate(record) THEN [S |-> S, ret |-> FALSE]
    ELSE LET enhancedRecord == _enhanceRecord(S, record, t)
             S0 == [S EXCEPT !.fifoCounter = @ + 1]
         IN  IF _recordExists(S0, enhancedRecord.id) THEN [S |-> S0, ret |-> FALSE]
             ELSE LET S1 == [Put(S0, enhancedRecord) EXCEPT
                                !.normalRecords = <<enhancedRecord.id>> \o @,
                                !.totalRecords = @ + 1]
                  IN  [S |-> _evictIfNeeded(S1), ret |-> TRUE]

\* the body of the for loop of appendRecords, for one record
AppendOne(S, record, t) ==
    IF validate(record)
    THEN LET enhancedRecord == _enhanceRecord(S, record, t)
             S0 == [S EXCEPT !.fifoCounter = @ + 1]
         IN  IF ~_recordExists(S0, enhancedRecord.id)
             THEN [Put(S0, enhancedRecord) EXCEPT
                      !.normalRecords = Append(@, enhancedRecord.id),
                      !.totalRecords = @ + 1]
             ELSE S0
    ELSE S

RECURSIVE AppendAll(_, _, _)
AppendAll(S, batch, t) ==
    IF batch = <<>> THEN S
    ELSE AppendAll(AppendOne(S, Head(batch), t), Tail(batch), t)

\* isArray = FALSE stands for an argument that is not an array
appendRecords(S, isArray, batch, t) ==
    IF ~isArray THEN [S |-> S, ret |-> FALSE]
    ELSE [S |-> _evictIfNeeded(AppendAll(S, batch, t)), ret |-> TRUE]

\* a plausible slip of the capacity check: > for >=
favoriteTierFull_offByOne(S) == Len(S.favoriteRecords) > favoriteLimit

\* this.favoriteRecords.size >= this.favoriteLimit
favoriteTierFull(S) == Len(S.favoriteRecords) >= favoriteLimit

toggleFavorite(S, recordId) ==
    IF ~_findRecordById(S, recordId) THEN [S |-> S, ret |-> FALSE]
    ELSE IF S.records[recordId].is_favorite
    THEN LET S1 == [S EXCEPT !.favoriteRecords = MapDelete(@, recordId),
                             !.records[recordId].is_favorite = FALSE,
                             !.records[recordId].cache_tier = "normal"]
         IN  IF S1.records[recordId].access_count > 3
             THEN [S |-> _updateLRUOrder(
                            [S1 EXCEPT !.records[recordId].cache_tier = "hot",
                                       !.hotRecords = MapSet(@, recordId)], recordId),
                   ret |-> TRUE]
             ELSE [S |-> [S1 EXCEPT !.normalRecords = <<recordId>> \o @], ret |-> TRUE]
    ELSE IF favoriteTierFull(S) THEN [S |-> S, ret |-> FALSE]
    ELSE LET S1 == _removeFromCurrentTier(S, recordId)
         IN  [S |-> [S1 EXCEPT !.records[recordId].is_favorite = TRUE,
                               !.records[recordId].cache_tier = "favorite",
                               !.favoriteRecords = MapSet(@, recordId)],
              ret |-> TRUE]

clearCache(S) ==
    [S |-> [S EXCEPT !.favoriteRecords = <<>>, !.hotRecords = <<>>,
                     !.normalRecords = <<>>, !.lruOrder = <<>>,
                     !.fifoCounter = 0, !.totalRecords = 0],
     ret |-> TRUE]

_promoteToHot(S, recordId) ==
    LET recordIndex == IndexOf(S.normalRecords, recordId) IN
    IF recordIndex = 0 THEN S
    ELSE LET S1 == IF Len(S.hotRecords) >= hotLimit
                   THEN _evictHotRecordsByLRU(S, 1) ELSE S
             S2 == [S1 EXCEPT !.normalRecords = RemoveAt(@, recordIndex),
                              !.records[recordId].cache_tier = "hot",
                              !.hotRecords = MapSet(@, recordId)]
         IN  _updateLRUOrder(S2, recordId)

recordAccess(S, recordId) ==
    IF ~_findRecordById(S, recordId) THEN [S |-> S, ret |-> FALSE]
    ELSE LET S1 == [S EXCEPT !.records[recordId].access_count = @ + 1]
             record == S1.records[recordId]
         IN  IF record.cache_tier = "normal" /\ record.access_count >= 3
             THEN [S |-> _promoteToHot(S1, recordId), ret |-> TRUE]
             ELSE IF record.cache_tier = "hot"
             THEN [S |-> _updateLRUOrder(S1, recordId), ret |-> TRUE]
             ELSE [S |-> S1, ret |-> TRUE]

\* the for loop over toRemove of optimizeForBackground
RECURSIVE RemoveHot(_, _)
RemoveHot(S, toRemove) ==
    IF toRemove = <<>> THEN S
    ELSE LET id == Head(toRemove) IN
         RemoveHot(_removeFromLRUOrder(
                       [S EXCEPT !.hotRecords = MapDelete(@, id),
                                 !.totalRecords = @ - 1], id),
                   Tail(toRemove))

optimizeForBackground(S) ==
    LET keepHotCount == Min(keepHotMax, Len(S.hotRecords))
        keepNormalCount == Min(keepNormalMax, Len(S.normalRecords))
        S1 == IF Len(S.hotRecords) > keepHotCount
              THEN RemoveHot(S, SubSeq(S.hotRecords, keepHotCount + 1, Len(S.hotRecords)))
              ELSE S
        S2 == IF Len(S1.normalRecords) > keepNormalCount
              THEN [S1 EXCEPT !.normalRecords = SubSeq(@, 1, keepNormalCount),
                              !.totalRecords = @ - (Len(S1.normalRecords) - keepNormalCount)]
              ELSE S1
    IN  [S |-> S2, ret |-> TRUE]

(***************************************************************************)
(* getCachedHistory: the three tiers merged, sorted by timestamp           *)
(* descending (Array.prototype.sort is stable), then sliced.  The listing  *)
(* is the sequence of the ids of the objects returned.                     *)
(***************************************************************************)
_getAllRecords(S) == S.favoriteRecords \o S.hotRecords \o S.normalRecords

\* insert id behind every element whose timestamp is not smaller
InsertByTime(S, sorted, id) ==
    LET later == {j \in 1..Len(sorted) :
                     S.records[sorted[j]].timestamp < S.records[id].timestamp}
        pos   == IF later = {} THEN Len(sorted) + 1
                 ELSE CHOOSE j \in later : \A k \in later : j <= k
    IN  SubSeq(sorted, 1, pos - 1) \o <<id>> \o SubSeq(sorted, pos, Len(sorted))

RECURSIVE SortByTime(_, _)
SortByTime(S, seq) ==
    IF seq = <<>> THEN <<>>
    ELSE InsertByTime(S, SortByTime(S, SubSeq(seq, 1, Len(seq) - 1)), seq[Len(seq)])

_getAllRecordsSorted(S) == SortByTime(S, _getAllRecords(S))

\* Array.prototype.slice(offset, offset + limit)
getCachedHistory(S, limit, offset) ==
    LET allRecords == _getAllRecordsSorted(S) IN
    SubSeq(allRecords, offset + 1, Min(offset + limit, Len(allRecords)))

(***************************************************************************)
(* The state machine.                                                      *)
(***************************************************************************)
\* PreloadService: the status object of the constructor and of _resetStatus
IdleStatus == [status |-> "idle", progress |-> 0, loadedRecords |-> 0]

\* PreloadService: nothing is awaited and no timer of the phases is set;
\* starts counts the startPreload calls that began loading (history)
NoPreloadCall ==
    [pc |-> "none", phaseIndex |-> 0,
     config |-> [phases |-> <<>>, timeout |-> 0, performanceMode |-> "none"],
     read |-> [limit |-> 0, offset |-> 0],
     via |-> "none", from |-> "none", starts |-> 0]

\* no forceSync call is under way; ret is what the last call returned
NoCall == [active |-> FALSE, wasProcessing |-> FALSE, batch |-> <<>>,
           processedCount |-> 0, ret |-> "none"]

Init ==
    /\ favoriteRecords = <<>>
    /\ hotRecords = <<>>
    /\ normalRecords = <<>>
    /\ lruOrder = <<>>
    /\ records = << >>
    /\ fifoCounter = 0
    /\ totalRecords = 0
    /\ hung = FALSE
    /\ lastOutcome = "other"
    /\ tasks = << >>
    /\ queue = <<>>
    /\ pendingBatch = <<>>
    /\ inFlight = <<>>
    /\ processing = FALSE
    /\ taskIdCounter = 0
    /\ coalescingMap = << >>
    /\ retryTimers = {}
    /\ errorState = [ consecutiveFailures |-> 0, circuitBreakerOpen |-> FALSE,
                      circuitBreakerTimeout |-> FALSE, deadLetterQueue |-> <<>> ]
    /\ manualRetries = 0
    /\ paused = FALSE
    /\ forceSyncCall = NoCall
    /\ undispatched = {}
    /\ cleared = {}
    /\ outOfBand = {}
    /\ delayCalls = <<>>
    /\ status = IdleStatus
    /\ progressiveState = [currentPhase |-> 0, isIdle |-> FALSE]
    /\ preloadErrorState = [consecutiveFailures |-> 0, recoveryAttempts |-> 0,
                            circuitBreakerOpen |-> FALSE, errorHistory |-> {}]
    /\ preloadCall = NoPreloadCall
    /\ preloadReturn = [call |-> "none", value |-> FALSE]
    /\ preloadEvents = {}
    /\ recoveryTimer = FALSE
    /\ insertedRecords = 0

\* the operation dropped a record it held from the cache
Dropped(S, S2) == \E id \in Held(S) : id \notin Held(S2)

\* the cache an operation leaves becomes the state
Commit(S2, outcome) ==
    LET S == Collect(S2) IN
    /\ favoriteRecords' = S.favoriteRecords
    /\ hotRecords' = S.hotRecords
    /\ normalRecords' = S.normalRecords
    /\ lruOrder' = S.lruOrder
    /\ records' = S.records
    /\ fifoCounter' = S.fifoCounter
    /\ totalRecords' = S.totalRecords
    /\ hung' = S.hung
    /\ lastOutcome' = IF S.hung THEN "hung" ELSE outcome
    /\ UNCHANGED <<queueVars, delayCalls, preloadVars>>

Batches == UNION {[1..n -> IncomingRecords] : n \in 0..MaxBatch}

PrependStep(record) ==
    LET R == prependRecord(Cache, record, now) IN
    /\ ~hung
    /\ fifoCounter < MaxFifo
    /\ Commit(R.S, IF validate(record) /\ ~R.ret THEN "duplicate"
                   ELSE IF Dropped(Cache, R.S) THEN "evicted" ELSE "other")

PrependRecord == \E record \in IncomingRecords : PrependStep(record)

AppendStep(batch) ==
    LET R == appendRecords(Cache, TRUE, batch, now) IN
    /\ ~hung
    /\ fifoCounter + Len(batch) <= MaxFifo
    /\ Commit(R.S, IF Dropped(Cache, R.S) THEN "evicted"
                   ELSE IF \E i \in 1..Len(batch) :
                              validate(batch[i]) /\ _recordExists(Cache, batch[i].id)
                        THEN "duplicate" ELSE "other")

AppendRecords == \E batch \in Batches : AppendStep(batch)

AppendNotArray ==
    /\ ~hung
    /\ Commit(appendRecords(Cache, FALSE, <<>>, now).S, "other")

ToggleStep(recordId) ==
    LET R == toggleFavorite(Cache, recordId) IN
    /\ ~hung
    /\ Commit(R.S, IF ~R.ret /\ _findRecordById(Cache, recordId)
                   THEN "refused" ELSE "other")

ToggleFavorite == \E recordId \in Ids : ToggleStep(recordId)

RecordAccess ==
    /\ ~hung
    /\ \E recordId \in Ids :
          /\ recordId \in DOMAIN records => records[recordId].access_count < MaxAccess
          /\ Commit(recordAccess(Cache, recordId).S, "other")

EvictByStrategy ==
    /\ ~hung
    /\ \E targetReduction \in {Null} \cup (0..MaxTarget) :
          LET S2 == evictByStrategy(Cache, targetReduction, now) IN
          Commit(S2, IF Dropped(Cache, S2) THEN "evicted" ELSE "other")

OptimizeForBackground ==
    LET R == optimizeForBackground(Cache) IN
    /\ ~hung
    /\ Commit(R.S, IF Dropped(Cache, R.S) THEN "evicted" ELSE "other")

ClearCache ==
    /\ ~hung
    /\ Commit(clearCache(Cache).S, "other")

\* more than expireTime passes: every record held is now older than that
Tick ==
    /\ ~hung
    /\ \E id \in DOMAIN records : records[id].cached_at # 0
    /\ records' = [id \in DOMAIN records |-> [records[id] EXCEPT !.cached_at = 0]]
    /\ lastOutcome' = "other"
    /\ UNCHANGED <<favoriteRecords, hotRecords, normalRecords, lruOrder,
                   fifoCounter, totalRecords, hung>>
    /\ UNCHANGED <<queueVars, delayCalls, preloadVars>>

Next ==
    \/ PrependRecord
    \/ AppendRecords
    \/ AppendNotArray
    \/ ToggleFavorite
    \/ RecordAccess
    \/ EvictByStrategy
    \/ OptimizeForBackground
    \/ ClearCache
    \/ Tick

Spec == Init /\ [][Next]_vars

\* the cache filled by prependRecord and appendRecords alone
NextInsert ==
    \/ PrependRecord
    \/ AppendRecords
    \/ AppendNotArray

SpecInsert == Init /\ [][NextInsert]_vars

\* every operation, the callers passing only objects that carry no cache
\* fields (rows of the store)
PlainRecords ==
    {r \in IncomingRecords : ~r.is_favorite /\ r.cache_tier = "undefined"}

PrependPlain == \E record \in PlainRecords : PrependStep(record)

AppendPlain ==
    \E batch \in UNION {[1..n -> PlainRecords] : n \in 0..MaxBatch} : AppendStep(batch)

NextPlain ==
    \/ PrependPlain
    \/ AppendPlain
    \/ AppendNotArray
    \/ ToggleFavorite
    \/ RecordAccess
    \/ EvictByStrategy
    \/ OptimizeForBackground
    \/ ClearCache
    \/ Tick

SpecPlain == Init /\ [][NextPlain]_vars

(***************************************************************************)
(* SyncQueue.js.  A task is a JavaScript object shared by reference by     *)
(* the queue, the pending batch, the batch in flight (inFlight), the coalescing map,  *)
(* the dead-letter queue and the closures of the retry timers; the model   *)
(* keeps the objects in `tasks` (taskIdCounter value -> fields) and the    *)
(* containers as sequences or sets of those numbers.  The queue as one     *)
(* value is SQ; the methods are operators from queue to queue.  Timers     *)
(* (setTimeout / setInterval) fire at any later moment.                    *)
(***************************************************************************)
\* this.config.maxRetries (3 in the code), copied into every task
maxRetries == 2
\* this.retryConfig.circuitBreakerThreshold (5 in the code)
circuitBreakerThreshold == 4
\* this.errorState.maxDeadLetterSize (50 in the code)
maxDeadLetterSize == 2
\* this.config.maxQueueSize (100 in the code)
maxQueueSize == 2
\* enqueueSync calls made (taskIdCounter)
MaxTasks == 3
\* _getAdaptiveBatchSize yields between 1 and MaxBatchSize tasks
MaxBatchSize == 2
\* failures handled (consecutiveFailures grows while the breaker is open)
MaxFailures == 5
\* manual retryTask calls
MaxManualRetries == 1
\* this.config.maxBatchSize: a pending batch this long is flushed at once
maxBatchSize == 20

\* payloads: an object with the fields a and b, 0 standing for an absent field
NoData == [a |-> 0, b |-> 0]

Payloads == { [a |-> 1, b |-> 0], [a |-> 2, b |-> 0], [a |-> 0, b |-> 1] }

\* { ...existingTask.data, ...task.data }: the newer fields win
MergeData(old, new) ==
    [a |-> IF new.a # 0 THEN new.a ELSE old.a,
     b |-> IF new.b # 0 THEN new.b ELSE old.b]

\* priorities the callers use: a delayable one and a high one (>= 8)
Priorities == {3, 9}

\* error messages, as the set of the keywords of _classifyError they hold
Messages == { {"timeout"}, {"permission"}, {"validation"} }

SQ ==
    [ tasks |-> tasks, queue |-> queue, pendingBatch |-> pendingBatch,
      inFlight |-> inFlight, processing |-> processing,
      taskIdCounter |-> taskIdCounter, coalescingMap |-> coalescingMap,
      retryTimers |-> retryTimers, errorState |-> errorState,
      manualRetries |-> manualRetries, paused |-> paused,
      forceSyncCall |-> forceSyncCall, undispatched |-> undispatched,
      cleared |-> cleared, outOfBand |-> outOfBand ]

\* task.priority >= 8 is never delayed; enqueueSync has just cleared isIdle
_shouldDelayTask(Q, task) == task.delayable /\ task.priority < 8

_insertTaskByPriority(Q, id) ==
    LET lower == {i \in 1..Len(Q.queue) :
                     Q.tasks[Q.queue[i]].priority < Q.tasks[id].priority}
        insertIndex == IF lower = {} THEN Len(Q.queue) + 1
                       ELSE CHOOSE i \in lower : \A j \in lower : i <= j
    IN  [Q EXCEPT !.queue = SubSeq(@, 1, insertIndex - 1) \o <<id>>
                            \o SubSeq(@, insertIndex, Len(@))]

RECURSIVE InsertAll(_, _)
InsertAll(Q, ids) ==
    IF ids = <<>> THEN Q
    ELSE InsertAll(_insertTaskByPriority(Q, Head(ids)), Tail(ids))

_flushPendingBatch(Q) ==
    IF Q.pendingBatch = <<>> THEN Q
    ELSE [InsertAll(Q, Q.pendingBatch) EXCEPT !.pendingBatch = <<>>]

\* the batch timer it sets is FlushPendingBatch
_addToPendingBatch(Q, id) ==
    LET Q1 == [Q EXCEPT !.pendingBatch = Append(@, id)] IN
    IF Len(Q1.pendingBatch) >= maxBatchSize THEN _flushPendingBatch(Q1) ELSE Q1

\* the key of the coalescing map: options.coalescingKey, or by default
\* `${task.type}_${JSON.stringify(task.data)}`
KeyOf(task) ==
    IF task.coalescingKey # "none" THEN <<"key", task.coalescingKey, NoData>>
    ELSE <<"sig", task.type, task.data>>

\* the task signature of the duplicate check
SignatureOf(task) == <<task.type, task.data>>

\* returns [Q, found]: found is the id of the task merged into, 0 for null
_tryCoalesceTask(Q, task) ==
    LET coalescingKey == KeyOf(task) IN
    IF coalescingKey \in DOMAIN Q.coalescingMap
    THEN LET e == Q.coalescingMap[coalescingKey] IN
         [Q |-> [Q EXCEPT !.tasks[e].data = MergeData(@, task.data),
                          !.tasks[e].priority = Max(@, task.priority),
                          !.tasks[e].createdAt = Max(@, task.createdAt)],
          found |-> e]
    ELSE [Q |-> [Q EXCEPT !.coalescingMap =
                     [k \in DOMAIN @ \cup {coalescingKey} |->
                         IF k = coalescingKey THEN task.id ELSE @[k]]],
          found |-> 0]

\* the id of the first task of the queue, then of the pending batch, with
\* the same signature; 0 for null
_findDuplicateTask(Q, task) ==
    LET all == Q.queue \o Q.pendingBatch
        same == {i \in 1..Len(all) : SignatureOf(Q.tasks[all[i]]) = SignatureOf(task)}
    IN  IF same = {} THEN 0 ELSE all[CHOOSE i \in same : \A j \in same : i <= j]

\* old: the tasks whose age has reached maxDelayTime
_cleanupQueue(Q, old) ==
    [Q EXCEPT !.queue = SelectSeq(@, LAMBDA id : Q.tasks[id].priority >= 5 \/ id \notin old)]

\* returns [Q, ret]: ret is the task id returned
enqueueSync(Q, type, data, priority, options, old) ==
    LET Q0 == IF Len(Q.queue) >= maxQueueSize THEN _cleanupQueue(Q, old) ELSE Q
        Q1 == [Q0 EXCEPT !.taskIdCounter = @ + 1]
        task == [ id |-> Q1.taskIdCounter, type |-> type, data |-> data,
                  priority |-> priority, createdAt |-> Q1.taskIdCounter,
                  retryCount |-> 0, maxRetries |-> maxRetries,
                  status |-> "pending", error |-> {}, attempts |-> 0,
                  coalescingKey |-> options.coalescingKey,
                  canCoalesce |-> options.canCoalesce,
                  delayable |-> options.delayable ]
        C  == IF task.canCoalesce THEN _tryCoalesceTask(Q1, task)
              ELSE [Q |-> Q1, found |-> 0]
        duplicateTask == _findDuplicateTask(C.Q, task)
        Q2 == [C.Q EXCEPT !.tasks = [i \in DOMAIN @ \cup {task.id} |->
                                        IF i = task.id THEN task ELSE @[i]]]
    IN  IF C.found # 0 THEN [Q |-> C.Q, ret |-> C.found]
        ELSE IF duplicateTask # 0
        THEN [Q |-> IF task.canCoalesce THEN Q2 ELSE C.Q, ret |-> duplicateTask]
        ELSE IF _shouldDelayTask(Q2, task)
        THEN [Q |-> _addToPendingBatch(Q2, task.id), ret |-> task.id]
        ELSE [Q |-> _insertTaskByPriority(Q2, task.id), ret |-> task.id]

(***************************************************************************)
(* Failure handling: error classes, retry, dead-letter queue and circuit   *)
(* breaker.                                                                *)
(***************************************************************************)
\* the keyword tests of _classifyError, in the order of the code
_classifyError(message) ==
    IF "timeout" \in message THEN "timeout"
    ELSE IF "network" \in message THEN "network"
    ELSE IF "database" \in message THEN "database"
    ELSE IF "permission" \in message THEN "permission"
    ELSE IF "validation" \in message THEN "validation"
    ELSE IF "conflict" \in message THEN "conflict"
    ELSE "unknown"

nonRetryableTypes == {"permission", "validation"}

_recordError(Q, id, error) ==
    [Q EXCEPT !.errorState.consecutiveFailures = @ + 1]

\* mutant of _shouldRetryTask: the circuit breaker is not consulted
_shouldRetryTask_ignoresBreaker(Q, id, error) ==
    /\ ~(Q.tasks[id].retryCount >= Q.tasks[id].maxRetries)
    /\ _classifyError(error) \notin nonRetryableTypes

\* mutant of _shouldRetryTask: the error class is not consulted
_shouldRetryTask_ignoresClass(Q, id, error) ==
    /\ ~(Q.tasks[id].retryCount >= Q.tasks[id].maxRetries)
    /\ ~Q.errorState.circuitBreakerOpen

_shouldRetryTask(Q, id, error) ==
    /\ ~(Q.tasks[id].retryCount >= Q.tasks[id].maxRetries)
    /\ ~Q.errorState.circuitBreakerOpen
    /\ _classifyError(error) \notin nonRetryableTypes

\* the retry timer is set; its callback is RetryTimerFires
_scheduleRetry(Q, id, error) ==
    [Q EXCEPT !.tasks[id].retryCount = @ + 1,
              !.tasks[id].status = "retrying",
              !.tasks[id].error = error,
              !.retryTimers = @ \cup {id}]

\* mutant of _moveToDeadLetterQueue: a full queue drops its newest entry
_moveToDeadLetterQueue_dropsNewest(Q, id, error) ==
    LET dlq == Q.errorState.deadLetterQueue
        kept == IF Len(dlq) >= maxDeadLetterSize THEN SubSeq(dlq, 1, Len(dlq) - 1) ELSE dlq
    IN  [Q EXCEPT !.tasks[id].status = "dead_letter",
                  !.errorState.deadLetterQueue = Append(kept, id)]

_moveToDeadLetterQueue(Q, id, error) ==
    LET dlq == Q.errorState.deadLetterQueue
        kept == IF Len(dlq) >= maxDeadLetterSize THEN Tail(dlq) ELSE dlq
    IN  [Q EXCEPT !.tasks[id].status = "dead_letter",
                  !.errorState.deadLetterQueue = Append(kept, id)]

_openCircuitBreaker(Q) ==
    IF Q.errorState.circuitBreakerOpen THEN Q
    ELSE [Q EXCEPT !.errorState.circuitBreakerOpen = TRUE,
                   !.errorState.circuitBreakerTimeout = TRUE]

_checkCircuitBreaker(Q) ==
    IF Q.errorState.consecutiveFailures >= circuitBreakerThreshold
    THEN _openCircuitBreaker(Q)
    ELSE Q

\* mutant of _closeCircuitBreaker: the failure counter is kept
_closeCircuitBreaker_keepsCount(Q) ==
    [Q EXCEPT !.errorState.circuitBreakerOpen = FALSE,
              !.errorState.circuitBreakerTimeout = FALSE]

_closeCircuitBreaker(Q) ==
    [Q EXCEPT !.errorState.circuitBreakerOpen = FALSE,
              !.errorState.consecutiveFailures = 0,
              !.errorState.circuitBreakerTimeout = FALSE]

_handleTaskFailure(Q, id, error) ==
    LET Q1 == _recordError(Q, id, error)
        Q2 == IF _shouldRetryTask(Q1, id, error)
              THEN _scheduleRetry(Q1, id, error)
              ELSE _moveToDeadLetterQueue(Q1, id, error)
    IN  _checkCircuitBreaker(Q2)

resetCircuitBreaker(Q) ==
    [_closeCircuitBreaker(Q) EXCEPT !.errorState.consecutiveFailures = 0]

\* returns [Q, ret]
retryTask(Q, taskId) ==
    LET dlq == Q.errorState.deadLetterQueue
        taskIndex == IndexOf(dlq, taskId)
    IN  IF taskIndex = 0 THEN [Q |-> Q, ret |-> FALSE]
        ELSE IF Q.errorState.circuitBreakerOpen THEN [Q |-> Q, ret |-> FALSE]
        ELSE [Q |-> _insertTaskByPriority(
                        [Q EXCEPT !.tasks[taskId].retryCount = 0,
                                  !.tasks[taskId].status = "pending",
                                  !.tasks[taskId].error = {},
                                  !.tasks[taskId].attempts = 0,
                                  !.errorState.deadLetterQueue = RemoveAt(@, taskIndex)],
                        taskId),
              ret |-> TRUE]

\* the filter keeps the tasks younger than maxAge: those created after `limit`
cleanupDeadLetterQueue(Q, limit) ==
    [Q EXCEPT !.errorState.deadLetterQueue =
                 SelectSeq(@, LAMBDA id : Q.tasks[id].createdAt > limit)]

\* the comparator of _getBatch: priority descending, then createdAt ascending
Before(Q, x, y) ==
    \/ Q.tasks[x].priority > Q.tasks[y].priority
    \/ /\ Q.tasks[x].priority = Q.tasks[y].priority
       /\ Q.tasks[x].createdAt <= Q.tasks[y].createdAt

RECURSIVE SortQueue(_, _)
\* stable insertion sort of ids by the comparator
SortQueue(Q, ids) ==
    IF ids = <<>> THEN <<>>
    ELSE LET rest == SortQueue(Q, SubSeq(ids, 1, Len(ids) - 1))
             x == ids[Len(ids)]
             after == {i \in 1..Len(rest) : ~Before(Q, rest[i], x)}
             at == IF after = {} THEN Len(rest) + 1
                   ELSE CHOOSE i \in after : \A j \in after : i <= j
         IN  SubSeq(rest, 1, at - 1) \o <<x>> \o SubSeq(rest, at, Len(rest))

\* a plausible slip of _getBatch: slice instead of splice, so that the tasks
\* of the batch stay in the queue
_getBatch_slices(Q, adaptiveBatchSize) ==
    LET batchSize == Min(adaptiveBatchSize, Len(Q.queue))
        sorted == SortQueue(Q, Q.queue)
        taken == SubSeq(sorted, 1, batchSize)
    IN  [Q EXCEPT !.queue = sorted,
                  !.inFlight = taken,
                  !.tasks = [i \in DOMAIN @ |->
                               IF i \in Range(taken)
                               THEN [@[i] EXCEPT !.status = "processing"]
                               ELSE @[i]]]

\* returns the queue with the batch taken out into Q.inFlight;
\* _processTask marks every task of the batch before its first await
_getBatch(Q, adaptiveBatchSize) ==
    LET batchSize == Min(adaptiveBatchSize, Len(Q.queue))
        sorted == SortQueue(Q, Q.queue)
        taken == SubSeq(sorted, 1, batchSize)
    IN  [Q EXCEPT !.queue = SubSeq(sorted, batchSize + 1, Len(sorted)),
                  !.inFlight = taken,
                  !.tasks = [i \in DOMAIN @ |->
                               IF i \in Range(taken)
                               THEN [@[i] EXCEPT !.status = "processing"]
                               ELSE @[i]]]

\* outcome: {} when the task succeeds, else the message of the error thrown
_processTask(Q, id, outcome) ==
    IF outcome = {}
    THEN [Q EXCEPT !.tasks[id].status = "completed"]
    ELSE [Q EXCEPT !.tasks[id].status = "failed",
                   !.tasks[id].error = outcome,
                   !.tasks[id].attempts = @ + 1]

RECURSIVE HandleResults(_, _, _)
\* the loop of _processBatch over the settled results, in batch order
HandleResults(Q, ids, outcomes) ==
    IF ids = <<>> THEN Q
    ELSE HandleResults(
            IF Head(outcomes) = {} THEN Q
            ELSE _handleTaskFailure(Q, Head(ids), Head(outcomes)),
            Tail(ids), Tail(outcomes))

RECURSIVE ProcessAll(_, _, _)
ProcessAll(Q, ids, outcomes) ==
    IF ids = <<>> THEN Q
    ELSE ProcessAll(_processTask(Q, Head(ids), Head(outcomes)), Tail(ids), Tail(outcomes))

_processBatch(Q, outcomes) ==
    [HandleResults(ProcessAll(Q, Q.inFlight, outcomes), Q.inFlight, outcomes)
        EXCEPT !.inFlight = <<>>, !.processing = FALSE]

(***************************************************************************)
(* The state machine of the queue.  The cache is left alone: the queue     *)
(* keeps a reference to the cache manager and never calls it.              *)
(***************************************************************************)
QueueCommit(Q2) ==
    /\ tasks' = Q2.tasks
    /\ queue' = Q2.queue
    /\ pendingBatch' = Q2.pendingBatch
    /\ inFlight' = Q2.inFlight
    /\ processing' = Q2.processing
    /\ taskIdCounter' = Q2.taskIdCounter
    /\ coalescingMap' = Q2.coalescingMap
    /\ retryTimers' = Q2.retryTimers
    /\ errorState' = Q2.errorState
    /\ manualRetries' = Q2.manualRetries
    /\ paused' = Q2.paused
    /\ forceSyncCall' = Q2.forceSyncCall
    /\ undispatched' = Q2.undispatched \ (Range(Q2.inFlight) \cup Range(Q2.forceSyncCall.batch)
                                          \cup UNION {Range(b) : b \in Q2.outOfBand})
    /\ cleared' = Q2.cleared
    /\ outOfBand' = Q2.outOfBand
    /\ UNCHANGED <<cacheVars, delayCalls, preloadVars>>

\* the options objects the callers pass; "none" stands for an absent key
Options ==
    { [coalescingKey |-> "none", canCoalesce |-> TRUE, delayable |-> TRUE],
      [coalescingKey |-> "k", canCoalesce |-> TRUE, delayable |-> TRUE],
      [coalescingKey |-> "k", canCoalesce |-> FALSE, delayable |-> TRUE] }

\* the tasks of the queue that may have reached the age maxDelayTime
OldSets(Q) == IF Len(Q.queue) >= maxQueueSize THEN SUBSET Range(Q.queue) ELSE {{}}

EnqueueStep(data, priority, options, old) ==
    /\ taskIdCounter < MaxTasks
    /\ QueueCommit(enqueueSync(SQ, "update", data, priority, options, old).Q)

EnqueueSync ==
    \E data \in Payloads, priority \in Priorities, options \in Options, old \in OldSets(SQ) :
        EnqueueStep(data, priority, options, old)

\* the batch timer (batchTimeout) or the idle detector flushes the pending batch
FlushPendingBatch ==
    /\ pendingBatch # <<>>
    /\ QueueCommit(_flushPendingBatch(SQ))

\* processSyncQueue up to its await
ProcessSyncQueue ==
    /\ ~processing
    /\ ~paused
    /\ queue # <<>>
    /\ \E adaptiveBatchSize \in 1..MaxBatchSize :
          QueueCommit(_getBatch([SQ EXCEPT !.processing = TRUE], adaptiveBatchSize))

Failures(outcomes) == Cardinality({i \in DOMAIN outcomes : outcomes[i] # {}})

SettleStep(outcomes) ==
    /\ processing
    /\ errorState.consecutiveFailures + Failures(outcomes) <= MaxFailures
    /\ QueueCommit(_processBatch(SQ, outcomes))

\* processSyncQueue after its await: the promises of the batch have settled
BatchSettles ==
    \E outcomes \in [1..Len(inFlight) -> {{}} \cup Messages] : SettleStep(outcomes)

\* the callback of the timer of _scheduleRetry
RetryTimerFires ==
    \E id \in retryTimers :
        LET Q1 == [SQ EXCEPT !.retryTimers = @ \ {id}] IN
        QueueCommit(IF Q1.tasks[id].status = "retrying"
                    THEN _insertTaskByPriority([Q1 EXCEPT !.tasks[id].status = "pending"], id)
                    ELSE Q1)

\* the callback of the timer of _tryCoalesceTask: coalescingMap.delete(key).
\* Its delay is batchTimeout, the delay of the batch timer set after it, and
\* the idle detector flushes sooner: the task registered has left the
\* pending batch when it fires.
CoalescingTimerFires ==
    \E key \in DOMAIN coalescingMap :
        /\ coalescingMap[key] \notin Range(pendingBatch)
        /\ QueueCommit([SQ EXCEPT !.coalescingMap = [k \in DOMAIN @ \ {key} |-> @[k]]])

\* the callback of the timer of _openCircuitBreaker
BreakerTimerFires ==
    /\ errorState.circuitBreakerTimeout
    /\ QueueCommit(_closeCircuitBreaker(SQ))

ResetCircuitBreaker ==
    \E Q2 \in {resetCircuitBreaker(SQ)} : QueueCommit(Q2)

RetryStep(taskId) ==
    /\ manualRetries < MaxManualRetries
    /\ QueueCommit(IF retryTask(SQ, taskId).ret
                    THEN [retryTask(SQ, taskId).Q EXCEPT !.manualRetries = @ + 1]
                    ELSE SQ)

RetryTask == \E taskId \in 1..MaxTasks : RetryStep(taskId)

CleanupDeadLetterQueue ==
    \E limit \in 0..MaxTasks : QueueCommit(cleanupDeadLetterQueue(SQ, limit))

QueueNext ==
    \/ EnqueueSync
    \/ FlushPendingBatch
    \/ ProcessSyncQueue
    \/ BatchSettles
    \/ RetryTimerFires
    \/ CoalescingTimerFires
    \/ BreakerTimerFires
    \/ ResetCircuitBreaker
    \/ RetryTask
    \/ CleanupDeadLetterQueue

SpecQueue == Init /\ [][QueueNext]_vars

\* failure handling alone (processing, retry, dead-lettering, breaker):
\* every caller passes a payload of its own with a high priority and
\* canCoalesce: false, so that no task is delayed, merged or refused as a
\* duplicate, and nobody calls cleanupDeadLetterQueue
EnqueuePlain ==
    \E old \in OldSets(SQ) :
        EnqueueStep([a |-> taskIdCounter + 1, b |-> 0], 9,
                    [coalescingKey |-> "none", canCoalesce |-> FALSE, delayable |-> TRUE],
                    old)

NextFailure ==
    \/ EnqueuePlain
    \/ ProcessSyncQueue
    \/ BatchSettles
    \/ RetryTimerFires
    \/ BreakerTimerFires
    \/ ResetCircuitBreaker
    \/ RetryTask

SpecFailure == Init /\ [][NextFailure]_vars

\* timers fire: the event loop runs every callback whose delay has passed
SpecFailureFair == SpecFailure /\ WF_vars(BreakerTimerFires)


\* enqueueing alone: tasks are delayed, merged, flushed and processed, and
\* every task succeeds (as the shipped handlers of the known types do)
BatchSucceeds == SettleStep([i \in 1..Len(inFlight) |-> {}])

NextCoalesce ==
    \/ EnqueueSync
    \/ FlushPendingBatch
    \/ CoalescingTimerFires
    \/ ProcessSyncQueue
    \/ BatchSucceeds

SpecCoalesce == Init /\ [][NextCoalesce]_vars

(***************************************************************************)
(* _calculateRetryDelay, a function of task.retryCount, the strategy and   *)
(* the value Math.random() returns.  Math.random() is r / RandomSteps for  *)
(* r in 0..RandomSteps-1 (it is never 1).                                  *)
(***************************************************************************)
\* largest task.retryCount passed
MaxRetryCount == 6
\* the grain of Math.random()
RandomSteps == 10

\* this.retryConfig.strategies
strategies ==
    [ exponential |-> [baseDelay |-> 1000, maxDelay |-> 30000, multiplier |-> 2, jitter |-> TRUE],
      linear |-> [baseDelay |-> 1000, increment |-> 1000, maxDelay |-> 10000],
      fixed |-> [delay |-> 2000] ]

RECURSIVE Pow(_, _)
\* Math.pow on naturals
Pow(x, n) == IF n = 0 THEN 1 ELSE x * Pow(x, n - 1)

\* Math.round(num / den) for naturals: floor(num / den + 1/2)
Round(num, den) == (2 * num + den) \div (2 * den)

\* mutant of _calculateRetryDelay: the jitter adds up to 150% instead of 10%
_calculateRetryDelay_wideJitter(retryCount, strategy, r) ==
    LET config == strategies.exponential
        delay == Min(config.baseDelay * Pow(config.multiplier, retryCount), config.maxDelay)
    IN  IF strategy = "exponential"
        THEN Round(delay * (10 * RandomSteps + 15 * r), 10 * RandomSteps)
        ELSE strategies.fixed.delay

_calculateRetryDelay(retryCount, strategy, r) ==
    IF strategy \notin DOMAIN strategies THEN strategies.fixed.delay
    ELSE IF strategy = "exponential"
    THEN LET config == strategies.exponential
             delay == Min(config.baseDelay * Pow(config.multiplier, retryCount),
                          config.maxDelay)
         IN  \* delay += Math.random() * delay * 0.1, then Math.round
             IF config.jitter
             THEN Round(delay * (10 * RandomSteps + r), 10 * RandomSteps)
             ELSE delay
    ELSE IF strategy = "linear"
    THEN LET config == strategies.linear IN
         Min(config.baseDelay + config.increment * retryCount, config.maxDelay)
    ELSE strategies.fixed.delay

\* the strategies a caller names (retryTask passes any string on)
StrategyNames == {"exponential", "linear", "fixed", "other"}

\* one call; Math.random() is drawn only by the exponential strategy
CalculateRetryDelay ==
    \E retryCount \in 0..MaxRetryCount, strategy \in StrategyNames,
       r \in 0..(RandomSteps - 1) :
        /\ strategy # "exponential" => r = 0
        /\ delayCalls' =
              (IF delayCalls = <<>> THEN <<>> ELSE <<delayCalls[Len(delayCalls)]>>)
              \o << [ retryCount |-> retryCount, strategy |-> strategy, random |-> r,
                      delay |-> _calculateRetryDelay(retryCount, strategy, r) ] >>
        /\ UNCHANGED <<cacheVars, queueVars, preloadVars>>

NextDelay == CalculateRetryDelay

SpecDelay == Init /\ [][NextDelay]_vars

(***************************************************************************)
(* forceSync, pauseSync and resumeSync.  forceSync is an async function:   *)
(* it runs from the call to its first await, and from each await to the    *)
(* next or to its return; other callbacks run while it awaits a batch.     *)
(***************************************************************************)
\* the while loop of forceSync from its test to the next await, or to the
\* return: `this.processing = wasProcessing; return true`
forceSyncLoop(Q, adaptiveBatchSize) ==
    IF Q.queue # <<>>
    THEN LET G == _getBatch([Q EXCEPT !.inFlight = <<>>], adaptiveBatchSize) IN
         [G EXCEPT !.forceSyncCall.batch = G.inFlight,
                   !.inFlight = Q.inFlight]
    ELSE [Q EXCEPT !.processing = Q.forceSyncCall.wasProcessing,
                   !.forceSyncCall.active = FALSE,
                   !.forceSyncCall.ret = "true"]

\* forceSync from the call to its first await
forceSync(Q, adaptiveBatchSize) ==
    forceSyncLoop([Q EXCEPT !.forceSyncCall =
                               [active |-> TRUE, wasProcessing |-> Q.processing,
                                batch |-> <<>>, processedCount |-> 0, ret |-> "none"],
                            !.processing = TRUE,
                            !.undispatched = Range(Q.queue)],
                  adaptiveBatchSize)

\* forceSync after `await this._processBatch(batch)`: the results are handled,
\* processedCount grows and the loop goes on (the 10 ms yield after every 20
\* tasks is beyond the bounds)
forceSyncResume(Q, outcomes, adaptiveBatchSize) ==
    LET ids == Q.forceSyncCall.batch
        Q1 == HandleResults(ProcessAll(Q, ids, outcomes), ids, outcomes)
    IN  forceSyncLoop([Q1 EXCEPT !.forceSyncCall.batch = <<>>,
                                 !.forceSyncCall.processedCount = @ + Len(ids)],
                      adaptiveBatchSize)

pauseSync(Q) == [Q EXCEPT !.paused = TRUE]

resumeSync(Q) == [Q EXCEPT !.paused = FALSE]

ForceSync ==
    /\ ~forceSyncCall.active
    /\ forceSyncCall.ret = "none"
    /\ \E adaptiveBatchSize \in 1..MaxBatchSize :
          QueueCommit(forceSync(SQ, adaptiveBatchSize))

ForceStep(outcomes, adaptiveBatchSize) ==
    /\ forceSyncCall.active
    /\ errorState.consecutiveFailures + Failures(outcomes) <= MaxFailures
    /\ QueueCommit(forceSyncResume(SQ, outcomes, adaptiveBatchSize))

\* the promises of the batch forceSync awaits have settled
ForceBatchSettles ==
    \E outcomes \in [1..Len(forceSyncCall.batch) -> {{}, {"timeout"}}],
       adaptiveBatchSize \in 1..MaxBatchSize :
        ForceStep(outcomes, adaptiveBatchSize)

PauseSync ==
    /\ ~paused
    /\ QueueCommit(pauseSync(SQ))

ResumeSync ==
    /\ paused
    /\ QueueCommit(resumeSync(SQ))

\* enqueueSync calls made beside a forceSync call
MaxForceTasks == 4

\* a caller enqueues a distinct mutation, delayable (priority 3) or urgent
EnqueueMutation ==
    /\ taskIdCounter < MaxForceTasks
    /\ \E priority \in Priorities, old \in OldSets(SQ) :
          QueueCommit(enqueueSync(SQ, "update", [a |-> taskIdCounter + 1, b |-> 0], priority,
                                  [coalescingKey |-> "none", canCoalesce |-> FALSE,
                                   delayable |-> TRUE],
                                  old).Q)

\* the batch of the timer-driven pass settles, every task succeeding
PassSettles ==
    /\ inFlight # <<>>
    /\ BatchSucceeds

NextForce ==
    \/ EnqueueMutation
    \/ FlushPendingBatch
    \/ ProcessSyncQueue
    \/ PassSettles
    \/ RetryTimerFires
    \/ PauseSync
    \/ ResumeSync
    \/ ForceSync
    \/ ForceBatchSettles

SpecForce == Init /\ [][NextForce]_vars

(***************************************************************************)
(* PreloadService (PanelPage.jsx).  The service as one value is PS, with   *)
(* the cache it feeds; its methods are operators from service to service.  *)
(* An async method runs up to its await: the continuation that is pending  *)
(* (the read of the store awaited, the timer of the next phase, the poll   *)
(* of the idle phase) is preloadCall, and one action resumes it.           *)
(***************************************************************************)
\* this.errorState.maxRecoveryAttempts
maxRecoveryAttempts == 3
\* records one read of the store returns at most
MaxFetch == 2
\* startPreload calls that begin loading
MaxStarts == 2

\* this.config: the phases, the timeout and the performance mode
DefaultConfig ==
    [ phases |-> << [name |-> "critical", size |-> 10, priority |-> "high"],
                    [name |-> "important", size |-> 20, priority |-> "medium"],
                    [name |-> "normal", size |-> 50, priority |-> "low"],
                    [name |-> "background", size |-> 120, priority |-> "idle"] >>,
      timeout |-> 10000, performanceMode |-> "balanced" ]

\* { ...this.config, ...this.fallbackConfig.minimalMode }
minimalMode ==
    [ phases |-> << [name |-> "essential", size |-> 5, priority |-> "high"] >>,
      timeout |-> 5000, performanceMode |-> DefaultConfig.performanceMode ]

PS ==
    [ status |-> status, progressiveState |-> progressiveState,
      errorState |-> preloadErrorState, call |-> preloadCall, ret |-> preloadReturn,
      events |-> preloadEvents, recoveryTimer |-> recoveryTimer,
      inserted |-> insertedRecords, cache |-> Cache ]

\* the error classes of _classifyError, by the keyword the message holds
ErrorTypes == {"timeout", "network", "database", "permission", "memory", "unknown"}

_canRecover(P, errorType) ==
    /\ errorType \notin {"permission", "memory"}
    /\ P.errorState.consecutiveFailures < 5

_shouldAutoRecover(P, errorType) ==
    /\ _canRecover(P, errorType)
    /\ P.errorState.recoveryAttempts < maxRecoveryAttempts
    /\ ~P.errorState.circuitBreakerOpen

\* _recordError, then _checkCircuitBreaker with its failureThreshold of 3,
\* the event and the timer of the automatic recovery
_handlePreloadError(P, errorType) ==
    LET P1 == [P EXCEPT !.status.status = "error",
                        !.errorState.errorHistory = @ \cup {errorType},
                        !.errorState.consecutiveFailures = @ + 1]
        P2 == IF P1.errorState.consecutiveFailures >= 3
              THEN [P1 EXCEPT !.errorState.circuitBreakerOpen = TRUE] ELSE P1
    IN  [P2 EXCEPT !.events = @ \cup {"preload_error"},
                   !.recoveryTimer = @ \/ _shouldAutoRecover(P2, errorType)]

_completePreload(P) ==
    [P EXCEPT !.status.status = "completed",
              !.status.progress = 100,
              !.events = @ \cup {"preload_completed"}]

\* the record is pushed by appendRecords: it is valid and no tier holds it
Inserts(S, record) == validate(record) /\ ~_recordExists(S, record.id)

RECURSIVE _addRecordsToCache(_, _)
\* returns [S, addedCount, inserted]: the cache, the count the method returns
\* and the number of records the cache took (history)
_addRecordsToCache(S, fetched) ==
    IF fetched = <<>> THEN [S |-> S, addedCount |-> 0, inserted |-> 0]
    ELSE LET R == appendRecords(S, TRUE, <<Head(fetched)>>, now)
             rest == _addRecordsToCache(R.S, Tail(fetched))
         IN  [ S |-> rest.S,
               addedCount |-> rest.addedCount + (IF R.ret THEN 1 ELSE 0),
               inserted |-> rest.inserted + (IF Inserts(S, Head(fetched)) THEN 1 ELSE 0) ]

RECURSIVE _calculatePhaseOffset(_, _)
\* the sum of the sizes of the phases before phaseIndex, as configured
_calculatePhaseOffset(phaseIndex, config) ==
    IF phaseIndex = 0 THEN 0
    ELSE _calculatePhaseOffset(phaseIndex - 1, config) + config.phases[phaseIndex].size

\* originalSize * 1.5 and originalSize * 0.5 are whole numbers for the even
\* sizes that reach the modes fast and memory here
_adjustBatchSize(originalSize, performanceMode) ==
    CASE performanceMode = "fast" -> Min((originalSize * 3) \div 2, 50)
      [] performanceMode = "memory" -> Max(originalSize \div 2, 5)
      [] OTHER -> originalSize

\* _loadPhase up to `await this._fetchRecordsFromDatabase(...)`
_loadPhase(P, phaseIndex, config, from) ==
    IF phaseIndex >= Len(config.phases)
    THEN [_completePreload(P) EXCEPT !.call.pc = "none"]
    ELSE LET offset == _calculatePhaseOffset(phaseIndex, config)
             adjustedSize == _adjustBatchSize(config.phases[phaseIndex + 1].size,
                                              config.performanceMode)
         IN  [P EXCEPT !.progressiveState.currentPhase = phaseIndex,
                       !.call.pc = "fetch",
                       !.call.phaseIndex = phaseIndex,
                       !.call.config = config,
                       !.call.read = [limit |-> adjustedSize, offset |-> offset],
                       !.call.from = from]

\* _loadPhase after the await.  answer.records is the array the store
\* returned, answer.error the class of the error thrown ("none" when the
\* read succeeded); returns [P, threw]
_loadPhaseResume(P, answer) ==
    LET phaseIndex == P.call.phaseIndex
        phases == P.call.config.phases
    IN  IF answer.error # "none"
        THEN [P |-> P, threw |-> phases[phaseIndex + 1].priority = "high"]
        ELSE IF Len(answer.records) > 0
        THEN LET A == _addRecordsToCache(P.cache, answer.records) IN
             [P |-> [P EXCEPT !.cache = A.S,
                              !.status.loadedRecords = @ + A.addedCount,
                              !.inserted = @ + A.inserted,
                              !.status.progress = ((phaseIndex + 1) * 100) \div Len(phases),
                              !.events = @ \cup {"phase_completed"}],
              threw |-> FALSE]
        ELSE [P |-> _completePreload(P), threw |-> FALSE]

\* scheduleNext(phaseIndex) of _scheduleNextPhases
scheduleNext(P, phaseIndex) ==
    IF phaseIndex >= Len(P.call.config.phases) \/ P.status.status # "loading"
    THEN [P EXCEPT !.call.pc = "none"]
    ELSE IF P.call.config.phases[phaseIndex + 1].priority = "idle"
    THEN [P EXCEPT !.call.pc = "idle", !.call.phaseIndex = phaseIndex]
    ELSE [P EXCEPT !.call.pc = "timer", !.call.phaseIndex = phaseIndex]

\* startPreload up to the await of phase 0.  _startProgressiveLoading catches
\* whatever its body throws, so the catch of startPreload, the one call of
\* _handlePreloadError, has nothing to catch
startPreload(P, config, via) ==
    IF P.status.status = "loading"
    THEN [P EXCEPT !.ret = [call |-> via, value |-> FALSE]]
    ELSE _loadPhase([P EXCEPT !.status = [IdleStatus EXCEPT !.status = "loading"],
                              !.inserted = 0,
                              !.progressiveState = [currentPhase |-> 0, isIdle |-> FALSE],
                              !.events = @ \cup {"preload_started"},
                              !.call.via = via,
                              !.call.starts = @ + 1],
                    0, config, "start")

\* startPreload after phase 0: _startProgressiveLoading returns false when
\* _loadPhase threw, else schedules the later phases and returns true
startPreloadResume(P, answer) ==
    LET L == _loadPhaseResume(P, answer) IN
    IF L.threw
    THEN [L.P EXCEPT !.call.pc = "none",
                     !.ret = [call |-> P.call.via, value |-> FALSE]]
    ELSE LET P1 == scheduleNext(L.P, 1) IN
         [P1 EXCEPT !.ret = [call |-> P.call.via, value |-> TRUE],
                    !.events = IF P.call.via = "fallback"
                               THEN @ \cup {"fallback_mode_completed"} ELSE @]

\* the callback of the timer of scheduleNext, after its await
timerPhaseResume(P, answer) ==
    LET L == _loadPhaseResume(P, answer) IN
    IF L.threw THEN [L.P EXCEPT !.call.pc = "none"]
    ELSE scheduleNext(L.P, P.call.phaseIndex + 1)

\* loadWhenIdle after its await
idlePhaseResume(P, answer) ==
    LET L == _loadPhaseResume(P, answer) IN
    IF L.threw THEN [L.P EXCEPT !.call.pc = "none"]
    ELSE IF P.call.phaseIndex + 1 < Len(P.call.config.phases)
    THEN [L.P EXCEPT !.call.pc = "idle", !.call.phaseIndex = @ + 1]
    ELSE [L.P EXCEPT !.call.pc = "none"]

_resetErrorState(P) ==
    [P EXCEPT !.errorState.consecutiveFailures = 0,
              !.errorState.circuitBreakerOpen = FALSE]

\* the sizes are halved, not below 5, after a timeout
_createRecoveryConfig(P) ==
    IF "timeout" \in P.errorState.errorHistory
    THEN [ phases |-> [i \in DOMAIN DefaultConfig.phases |->
                          [DefaultConfig.phases[i] EXCEPT
                              !.size = Max(5, DefaultConfig.phases[i].size \div 2)]],
           timeout |-> DefaultConfig.timeout * 2,
           performanceMode |-> DefaultConfig.performanceMode ]
    ELSE DefaultConfig

_startOfflineMode(P) ==
    [P EXCEPT !.status.status = "completed",
              !.status.progress = 100,
              !.events = @ \cup {"offline_mode_started"},
              !.ret = [call |-> "fallback", value |-> P.cache.totalRecords > 0]]

\* startPreload rejects nothing, so the catch of _startFallbackMode, the one
\* call of _startOfflineMode, has nothing to catch
_startFallbackMode(P) ==
    startPreload([P EXCEPT !.events = @ \cup {"fallback_mode_started"}],
                 minimalMode, "fallback")

recoverPreload(P) ==
    IF P.errorState.recoveryAttempts >= maxRecoveryAttempts
    THEN _startFallbackMode(P)
    ELSE LET P1 == _resetErrorState([P EXCEPT !.errorState.recoveryAttempts = @ + 1]) IN
         startPreload([P1 EXCEPT !.events = @ \cup {"recovery_started"}],
                      _createRecoveryConfig(P1), "recover")

stopPreload(P) ==
    IF P.status.status = "loading"
    THEN [P EXCEPT !.status.status = "idle",
                   !.errorState.circuitBreakerOpen = FALSE,
                   !.events = @ \cup {"preload_stopped"}]
    ELSE P

(***************************************************************************)
(* The state machine of the service, on a cache nothing else writes.       *)
(***************************************************************************)
PreloadCommit(P) ==
    LET S == Collect(P.cache) IN
    /\ favoriteRecords' = S.favoriteRecords
    /\ hotRecords' = S.hotRecords
    /\ normalRecords' = S.normalRecords
    /\ lruOrder' = S.lruOrder
    /\ records' = S.records
    /\ fifoCounter' = S.fifoCounter
    /\ totalRecords' = S.totalRecords
    /\ hung' = S.hung
    /\ lastOutcome' = IF S.hung THEN "hung" ELSE "other"
    /\ status' = P.status
    /\ progressiveState' = P.progressiveState
    /\ preloadErrorState' = P.errorState
    /\ preloadCall' = P.call
    /\ preloadReturn' = P.ret
    /\ preloadEvents' = P.events
    /\ recoveryTimer' = P.recoveryTimer
    /\ insertedRecords' = P.inserted
    /\ UNCHANGED <<queueVars, delayCalls>>

\* what the store answers to a read of at most `limit` records: an array of
\* records (new ones, ones read before, ones the cache rejects), or an error
\* (a rejection, or the timeout of the race)
StoreRecords == {r \in PlainRecords : r.id # 0 /\ r.timestamp # InvalidTimestamp}

StoreAnswers(limit) ==
    { [error |-> "none", records |-> fetched] :
         fetched \in UNION {[1..n -> StoreRecords] : n \in 0..Min(limit, MaxFetch)} }
    \cup { [error |-> e, records |-> <<>>] : e \in {"timeout", "permission"} }

\* the application calls startPreload(), not while the phases of a stopped
\* run are still scheduled
StartPreload ==
    /\ ~hung
    /\ preloadCall.starts < MaxStarts
    /\ preloadCall.pc = "none" \/ status.status = "loading"
    /\ PreloadCommit(startPreload(PS, DefaultConfig, "start"))

\* the application calls recoverPreload()
RecoverPreload ==
    /\ ~hung
    /\ preloadCall.starts < MaxStarts
    /\ preloadCall.pc = "none" \/ status.status = "loading"
    /\ PreloadCommit(recoverPreload(PS))

\* the application calls stopPreload()
StopPreload ==
    /\ status.status = "loading"
    /\ PreloadCommit(stopPreload(PS))

\* the timer of _handlePreloadError fires: recoverPreload()
RecoveryTimerFires ==
    /\ recoveryTimer
    /\ PreloadCommit(recoverPreload([PS EXCEPT !.recoveryTimer = FALSE]))

FetchStep(answer) ==
    /\ ~hung
    /\ preloadCall.pc = "fetch"
    /\ fifoCounter + Len(answer.records) <= MaxFifo
    /\ PreloadCommit(CASE preloadCall.from = "start" -> startPreloadResume(PS, answer)
                       [] preloadCall.from = "timer" -> timerPhaseResume(PS, answer)
                       [] OTHER -> idlePhaseResume(PS, answer))

\* the read of the store settles
FetchSettles ==
    /\ preloadCall.pc = "fetch"
    /\ \E answer \in StoreAnswers(preloadCall.read.limit) : FetchStep(answer)

\* the timer of scheduleNext fires
PhaseTimerFires ==
    /\ preloadCall.pc = "timer"
    /\ PreloadCommit(_loadPhase(PS, preloadCall.phaseIndex, preloadCall.config, "timer"))

\* loadWhenIdle finds the service idle and loading (otherwise it polls again)
IdlePollFires ==
    /\ preloadCall.pc = "idle"
    /\ progressiveState.isIdle
    /\ status.status = "loading"
    /\ PreloadCommit(_loadPhase(PS, preloadCall.phaseIndex, preloadCall.config, "idle"))

\* checkIdle finds no activity for idleThreshold
IdleDetected ==
    /\ status.status = "loading"
    /\ ~progressiveState.isIdle
    /\ PreloadCommit([PS EXCEPT !.progressiveState.isIdle = TRUE])

RecordUserActivity ==
    /\ progressiveState.isIdle
    /\ PreloadCommit([PS EXCEPT !.progressiveState.isIdle = FALSE])

NextPreload ==
    \/ StartPreload
    \/ RecoverPreload
    \/ StopPreload
    \/ FetchSettles
    \/ PhaseTimerFires
    \/ IdlePollFires
    \/ IdleDetected
    \/ RecordUserActivity

SpecPreload == Init /\ [][NextPreload]_vars

(***************************************************************************)
(* clearQueue.  It replaces this.queue by an empty array; the pending      *)
(* batch, the batch in flight, the retry timers and the coalescing map are *)
(* other containers, which it does not touch.                              *)
(***************************************************************************)
\* the tasks that wait to be dispatched: in the main queue, in the pending
\* batch or for their retry timer
Waiting(Q) ==
    Range(Q.queue) \cup Range(Q.pendingBatch)
        \cup {id \in Q.retryTimers : Q.tasks[id].status = "retrying"}

clearQueue(Q) == [Q EXCEPT !.queue = <<>>, !.cleared = @ \cup Waiting(Q)]

ClearQueue ==
    /\ Waiting(SQ) # {}
    /\ QueueCommit(clearQueue(SQ))

\* the batch of the timer-driven pass settles, each task succeeding or
\* failing with a retryable or a non-retryable error
TimerPassSettles ==
    /\ inFlight # <<>>
    /\ \E outcomes \in [1..Len(inFlight) -> {{}, {"timeout"}, {"permission"}}] :
          SettleStep(outcomes)

\* enqueueSync calls made beside clearQueue: at most MaxTasks
EnqueueTask ==
    /\ taskIdCounter < MaxTasks
    /\ EnqueueMutation

NextClear ==
    \/ EnqueueTask
    \/ FlushPendingBatch
    \/ ProcessSyncQueue
    \/ TimerPassSettles
    \/ RetryTimerFires
    \/ ClearQueue

SpecClear == Init /\ [][NextClear]_vars

(***************************************************************************)
(* enqueueBatchSync and _processHighPriorityTasks.  The latter calls       *)
(* _processBatch without awaiting it: the batch is processed out of band,  *)
(* beside the timer-driven pass and forceSync, whatever the flags          *)
(* processing and paused say.                                              *)
(***************************************************************************)
\* tasks per enqueueBatchSync call
MaxEnqueueBatch == 2

RECURSIVE EnqueueAll(_, _, _)
\* the for loop of enqueueBatchSync: options become { canCoalesce: true }
EnqueueAll(Q, taskDatas, old) ==
    IF taskDatas = <<>> THEN Q
    ELSE EnqueueAll(enqueueSync(Q, "update", Head(taskDatas).data, Head(taskDatas).priority,
                                [coalescingKey |-> "none", canCoalesce |-> TRUE,
                                 delayable |-> TRUE],
                                old).Q,
                    Tail(taskDatas), old)

\* _processBatch runs up to its await: _processTask marks every task
_processHighPriorityTasks(Q) ==
    LET highPriorityTasks == SelectSeq(Q.queue, LAMBDA id : Q.tasks[id].priority >= 8) IN
    IF highPriorityTasks # <<>>
    THEN [Q EXCEPT !.queue = SelectSeq(@, LAMBDA id : Q.tasks[id].priority < 8),
                   !.outOfBand = @ \cup {highPriorityTasks},
                   !.tasks = [i \in DOMAIN @ |->
                                IF i \in Range(highPriorityTasks)
                                THEN [@[i] EXCEPT !.status = "processing"]
                                ELSE @[i]]]
    ELSE Q

enqueueBatchSync(Q, taskDatas, old) ==
    _processHighPriorityTasks(EnqueueAll(Q, taskDatas, old))

\* the array passed to enqueueBatchSync: distinct mutations without options,
\* each delayable (priority 3) or urgent
TaskDatas(priorities) ==
    [i \in DOMAIN priorities |->
        [data |-> [a |-> taskIdCounter + i, b |-> 0], priority |-> priorities[i]]]

EnqueueBatchSync ==
    \E n \in 1..MaxEnqueueBatch :
        \E priorities \in [1..n -> Priorities], old \in SUBSET Range(queue) :
            /\ taskIdCounter + n <= MaxTasks
            /\ QueueCommit(enqueueBatchSync(SQ, TaskDatas(priorities), old))

\* the promises of a batch started by _processHighPriorityTasks have settled:
\* the rest of _processBatch
OutOfBandStep(batch, outcomes) ==
    /\ errorState.consecutiveFailures + Failures(outcomes) <= MaxFailures
    /\ QueueCommit([HandleResults(ProcessAll(SQ, batch, outcomes), batch, outcomes)
                       EXCEPT !.outOfBand = @ \ {batch}])

OutOfBandBatchSettles ==
    \E batch \in outOfBand :
        \E outcomes \in [1..Len(batch) -> {{}, {"timeout"}, {"permission"}}] :
            OutOfBandStep(batch, outcomes)

(***************************************************************************)
(* Every way a task moves between the containers of the queue: enqueueSync *)
(* and enqueueBatchSync, the batch timer, the timer-driven pass, forceSync, *)
(* the out-of-band batches, the retry timers and retryTask.                 *)
(***************************************************************************)
NextContainers ==
    \/ EnqueueBatchSync
    \/ FlushPendingBatch
    \/ ProcessSyncQueue
    \/ TimerPassSettles
    \/ OutOfBandBatchSettles
    \/ ForceSync
    \/ ForceBatchSettles
    \/ RetryTimerFires
    \/ RetryTask

SpecContainers == Init /\ [][NextContainers]_vars

(***************************************************************************)
(* Pausing: pauseSync and resumeSync beside every path that dispatches.    *)
(***************************************************************************)
NextPause ==
    \/ EnqueueBatchSync
    \/ FlushPendingBatch
    \/ ProcessSyncQueue
    \/ PassSettles
    \/ OutOfBandBatchSettles
    \/ RetryTimerFires
    \/ PauseSync
    \/ ResumeSync
    \/ ForceSync
    \/ ForceBatchSettles

SpecPause == Init /\ [][NextPause]_vars

(***************************************************************************)
(* The performance modes: startPreload({ performanceMode }) with the       *)
(* default phases.                                                         *)
(***************************************************************************)
PerformanceModes == {"fast", "balanced", "memory"}

StartPreloadInMode ==
    /\ ~hung
    /\ preloadCall.starts < MaxStarts
    /\ preloadCall.pc = "none" \/ status.status = "loading"
    /\ \E performanceMode \in PerformanceModes :
          PreloadCommit(startPreload(PS, [DefaultConfig EXCEPT !.performanceMode = performanceMode],
                                     "start"))

NextModes ==
    \/ StartPreloadInMode
    \/ StopPreload
    \/ FetchSettles
    \/ PhaseTimerFires
    \/ IdlePollFires
    \/ IdleDetected
    \/ RecordUserActivity

SpecModes == Init /\ [][NextModes]_vars

(***************************************************************************)
(* Properties.                                                             *)
(***************************************************************************)
\* every slot of the three tiers, as ids
AllSlots == favoriteRecords \o hotRecords \o normalRecords

\* how many slots of the three tiers hold id
Occurrences(id) == Cardinality({i \in 1..Len(AllSlots) : AllSlots[i] = id})

\* the cache after the step
CacheNext ==
    [ favoriteRecords |-> favoriteRecords', hotRecords |-> hotRecords',
      normalRecords |-> normalRecords', lruOrder |-> lruOrder',
      records |-> records', fifoCounter |-> fifoCounter',
      totalRecords |-> totalRecords', hung |-> hung' ]

\* C1: under prependRecord / appendRecords alone, no two slots of the
\* favorite, hot and normal tiers ever hold a record with the same id.
C1_NoTwoRecordsWithSameId ==
    \A i, j \in 1..Len(AllSlots) : i # j => AllSlots[i] # AllSlots[j]

\* C1 witness: an insertion was refused as a duplicate while the cache
\* holds records.
C1_Witness == lastOutcome = "duplicate" /\ Len(normalRecords) = maxSize

\* C2: after any sequence of public operations every cached record is held
\* exactly once, in exactly one tier.
C2_ExactlyOneTier == \A id \in Held(Cache) : Occurrences(id) = 1

\* C3: a record is in the favorite tier if and only if its is_favorite flag
\* is true, and then its cache_tier field says favorite.
C3_FavoriteTierIffFlag ==
    \A id \in Held(Cache) :
        /\ (id \in Range(favoriteRecords)) <=> records[id].is_favorite
        /\ (id \in Range(favoriteRecords)) <=> (records[id].cache_tier = "favorite")

\* C4: once an operation has returned, the hot tier holds at most hotLimit
\* records.
C4_HotWithinLimit == ~hung => Len(hotRecords) <= hotLimit

\* a prependRecord or appendRecords call was made and has returned
InsertReturned ==
    /\ PrependRecord \/ AppendRecords \/ AppendNotArray
    /\ ~hung'

\* C5: after every prependRecord or appendRecords call returns, favorite +
\* hot + normal is at most maxSize.
C5_TotalWithinMaxSize ==
    [][InsertReturned =>
          Len(favoriteRecords') + Len(hotRecords') + Len(normalRecords') <= maxSize]_vars

\* C6: the favorite tier holds at most favoriteLimit records in every
\* reachable state.
C6_FavoriteWithinLimit == Len(favoriteRecords) <= favoriteLimit

\* C6 witness: the favorite tier is full and the cache holds a record that
\* is not in it.
C6_Witness ==
    /\ Len(favoriteRecords) = favoriteLimit
    /\ \E id \in Held(Cache) : id \notin Range(favoriteRecords)

\* C7: toggleFavorite on a record whose is_favorite flag is false, called
\* while the favorite tier holds favoriteLimit records, returns false and
\* leaves the three tiers, the LRU order list and the records unchanged.
C7_RefusedToggleChangesNothing ==
    [][\A recordId \in Ids :
          ( /\ ToggleStep(recordId)
            /\ _findRecordById(Cache, recordId)
            /\ ~records[recordId].is_favorite
            /\ Len(favoriteRecords) >= favoriteLimit )
          => ( /\ ~toggleFavorite(Cache, recordId).ret
               /\ UNCHANGED <<favoriteRecords, hotRecords, normalRecords,
                              lruOrder, records>> )]_vars

\* C7 witness: the last operation was a toggleFavorite refused with the
\* favorite tier full.
C7_Witness == lastOutcome = "refused" /\ Len(favoriteRecords) = favoriteLimit

\* C8: a record of the favorite tier stays in the favorite tier across
\* every step that is neither a toggleFavorite of it nor clearCache.
C8_FavoritesSurviveEviction ==
    [][\A id \in Range(favoriteRecords) :
          \/ ToggleStep(id)
          \/ ClearCache
          \/ /\ id \in Range(favoriteRecords')
             /\ records'[id].is_favorite = records[id].is_favorite
             /\ records'[id].cache_tier = records[id].cache_tier]_vars

\* C8 witness: the last operation dropped a record from the cache while the
\* favorite tier holds one.
C8_Witness == lastOutcome = "evicted" /\ favoriteRecords # <<>>

\* C9: the eviction pass of prependRecord / appendRecords always
\* terminates: no operation is ever left in a loop that does not end.
C9_EvictionTerminates == ~hung

\* C10: whenever prependRecord(r) returns true, the listing the next
\* getCachedHistory call returns (limit covering the whole cache) holds r.id.
C10_ReadYourWrites ==
    [][\A record \in IncomingRecords :
          ( /\ PrependStep(record)
            /\ prependRecord(Cache, record, now).ret
            /\ ~hung' )
          => record.id \in Range(getCachedHistory(CacheNext, Len(_getAllRecords(CacheNext)), 0))]_vars

\* C11: a prependRecord call with a record whose id the cache already holds
\* (the second of two calls with the same record) returns false and leaves
\* the tiers, the LRU list, the records, the record counter and the FIFO
\* sequence counter as they were.
C11_SecondPrependChangesNothing ==
    [][\A record \in IncomingRecords :
          ( /\ PrependStep(record)
            /\ validate(record)
            /\ record.id \in Held(Cache) )
          => ( /\ ~prependRecord(Cache, record, now).ret
               /\ UNCHANGED <<favoriteRecords, hotRecords, normalRecords, lruOrder,
                              records, totalRecords, fifoCounter>> )]_vars

\* the listing is ordered by timestamp descending
SortedDescending(S, listing) ==
    \A i, j \in 1..Len(listing) :
        i < j => S.records[listing[i]].timestamp >= S.records[listing[j]].timestamp

\* C12: for every limit and offset, getCachedHistory returns the slice
\* [offset, offset + limit) of a listing that holds every cached record,
\* ordered by timestamp descending, and no id occurs twice in it.
C12_ListingSortedNoDuplicates ==
    LET all == getCachedHistory(Cache, Len(_getAllRecords(Cache)), 0) IN
    /\ Range(all) = Held(Cache)
    /\ \A limit \in 0..(maxSize + 1), offset \in 0..maxSize :
          LET page == getCachedHistory(Cache, limit, offset) IN
          /\ page = SubSeq(all, offset + 1, Min(offset + limit, Len(all)))
          /\ SortedDescending(Cache, page)
          /\ \A i, j \in 1..Len(page) : i # j => page[i] # page[j]

\* C13: access_count changes only in a recordAccess step and then by one;
\* and a record of the normal tier whose access_count recordAccess has
\* raised to 3 or more is in the hot tier when the call has returned.
C13_AccessCountAndPromotion ==
    [][/\ \A id \in DOMAIN records \cap DOMAIN records' :
             \/ records'[id].access_count = records[id].access_count
             \/ /\ RecordAccess
                /\ records'[id].access_count = records[id].access_count + 1
       /\ \A id \in Range(normalRecords) :
             ( /\ RecordAccess
               /\ id \in DOMAIN records'
               /\ records'[id].access_count = records[id].access_count + 1
               /\ records'[id].access_count >= 3 )
             => id \in Range(hotRecords')]_vars

\* the task failed in this step with an error of a retryable class
FailedRetryable(id) ==
    /\ id \in Range(inFlight)
    /\ tasks'[id].attempts = tasks[id].attempts + 1
    /\ _classifyError(tasks'[id].error) \notin nonRetryableTypes

\* C14: with the circuit breaker closed, a task that fails with an error of
\* a retryable class becomes dead_letter at its failed attempt number
\* maxRetries, no sooner and no later, and its retryCount is then maxRetries.
C14_DeadLetterAfterMaxRetriesAttempts ==
    [][\A id \in DOMAIN tasks :
          ( /\ FailedRetryable(id)
            /\ ~errorState.circuitBreakerOpen
            /\ ~errorState'.circuitBreakerOpen )
          => /\ tasks'[id].status = "dead_letter" <=> tasks'[id].attempts = maxRetries
             /\ tasks'[id].status = "dead_letter" => tasks'[id].retryCount = maxRetries]_vars

\* the tasks this step scheduled for a retry
NewlyScheduled == {id \in DOMAIN tasks' : id \in retryTimers' /\ id \notin retryTimers}

\* C15: once consecutiveFailures has reached circuitBreakerThreshold the
\* breaker is open; a step taken while it is open schedules no retry and
\* moves no dead-lettered task back into the queue, and a step that opens it
\* schedules retries only for the failures up to the threshold.
C15_OpenBreakerSchedulesNoRetry ==
    [][/\ errorState'.consecutiveFailures >= circuitBreakerThreshold
             => errorState'.circuitBreakerOpen
       /\ errorState.circuitBreakerOpen
             => /\ NewlyScheduled = {}
                /\ \A id \in DOMAIN tasks :
                      tasks'[id].status = "retrying" => tasks[id].status = "retrying"
                /\ \A id \in Range(errorState.deadLetterQueue) :
                      /\ id \notin Range(queue')
                      /\ tasks'[id].status = "dead_letter"
       /\ ~errorState.circuitBreakerOpen
             => Cardinality(NewlyScheduled)
                   <= Max(0, circuitBreakerThreshold - errorState.consecutiveFailures)]_vars

\* the breaker is open and the dead-letter queue holds a task that failed
\* with a retryable error before its retries were used up
C15_Witness ==
    /\ errorState.circuitBreakerOpen
    /\ \E id \in Range(errorState.deadLetterQueue) :
          /\ tasks[id].retryCount < maxRetries
          /\ _classifyError(tasks[id].error) \notin nonRetryableTypes

\* C16: the auto-close timer is pending exactly while the breaker is open;
\* an open breaker is eventually closed (its timer fires); whenever it
\* closes consecutiveFailures is 0 and no timer is left; resetCircuitBreaker
\* leaves the breaker closed, the counter 0 and no timer pending.
C16_BreakerClosesAndResets ==
    /\ errorState.circuitBreakerOpen ~> ~errorState.circuitBreakerOpen
    /\ [](errorState.circuitBreakerOpen <=> errorState.circuitBreakerTimeout)
    /\ [][/\ (errorState.circuitBreakerOpen /\ ~errorState'.circuitBreakerOpen)
                => /\ errorState'.consecutiveFailures = 0
                   /\ ~errorState'.circuitBreakerTimeout
          /\ ResetCircuitBreaker
                => /\ ~errorState'.circuitBreakerOpen
                   /\ errorState'.consecutiveFailures = 0
                   /\ ~errorState'.circuitBreakerTimeout]_vars

\* the breaker has been open (a retryable failure was dead-lettered before
\* its retries were used up) and is closed again, the counter at 0
C16_Witness ==
    /\ ~errorState.circuitBreakerOpen
    /\ errorState.consecutiveFailures = 0
    /\ \E id \in Range(errorState.deadLetterQueue) :
          /\ tasks[id].retryCount < maxRetries
          /\ _classifyError(tasks[id].error) \notin nonRetryableTypes

\* the task failed in this step with an error classified permission or validation
FailedNonRetryable(id) ==
    /\ id \in Range(inFlight)
    /\ tasks'[id].attempts = tasks[id].attempts + 1
    /\ _classifyError(tasks'[id].error) \in nonRetryableTypes

\* C17: a task that fails with an error classified permission or validation
\* is dead_letter when the failure has been handled, with its retryCount
\* unchanged, and it is neither given a retry timer nor put back into the
\* queue, whatever its retryCount and the state of the breaker.
C17_NonRetryableGoesToDeadLetter ==
    [][\A id \in DOMAIN tasks :
          FailedNonRetryable(id)
          => /\ tasks'[id].status = "dead_letter"
             /\ tasks'[id].retryCount = tasks[id].retryCount
             /\ id \in Range(errorState'.deadLetterQueue)
             /\ id \notin retryTimers'
             /\ id \notin Range(queue')]_vars

\* a task in the dead-letter queue after a single failed attempt, classified
\* permission or validation, and one that had been retried before
C17_Witness ==
    /\ \E id \in Range(errorState.deadLetterQueue) :
          /\ tasks[id].attempts = 1
          /\ tasks[id].retryCount = 0
          /\ _classifyError(tasks[id].error) \in nonRetryableTypes
    /\ \E id \in Range(errorState.deadLetterQueue) :
          /\ tasks[id].retryCount > 0
          /\ tasks[id].retryCount < maxRetries
          /\ _classifyError(tasks[id].error) \in nonRetryableTypes

\* the dead-letter queue after the step is the one before it without its j
\* earliest entries, followed by the tasks dead-lettered in the step; entries
\* are dropped only to keep the length at maxDeadLetterSize
EvictsEarliest(before, after) ==
    \E j \in 0..Len(before) :
        LET kept == SubSeq(before, j + 1, Len(before)) IN
        /\ Len(after) >= Len(kept)
        /\ SubSeq(after, 1, Len(kept)) = kept
        /\ \A i \in (Len(kept) + 1)..Len(after) :
              /\ after[i] \notin Range(before)
              /\ tasks[after[i]].status # "dead_letter"
              /\ tasks'[after[i]].status = "dead_letter"
        /\ j > 0 => Len(after) = maxDeadLetterSize

\* C18: the dead-letter queue never holds more than maxDeadLetterSize tasks;
\* a step changes it either by taking out the one task retryTask re-queues,
\* or by appending the tasks it dead-letters at the end after dropping just
\* as many of the earliest entries as do not fit; the entries that stay keep
\* their order.
C18_DeadLetterQueueBoundedFifo ==
    /\ [](Len(errorState.deadLetterQueue) <= maxDeadLetterSize)
    /\ [][\/ /\ manualRetries' = manualRetries + 1
             /\ \E i \in 1..Len(errorState.deadLetterQueue) :
                   /\ errorState'.deadLetterQueue = RemoveAt(errorState.deadLetterQueue, i)
                   /\ errorState.deadLetterQueue[i] \in Range(queue')
          \/ /\ manualRetries' = manualRetries
             /\ EvictsEarliest(errorState.deadLetterQueue, errorState'.deadLetterQueue)]_vars

\* the dead-letter queue is full, a task dead-lettered earlier has been
\* dropped from it, and retryTask has taken a task out of it before
C18_Witness ==
    /\ Len(errorState.deadLetterQueue) = maxDeadLetterSize
    /\ manualRetries > 0
    /\ \E id \in DOMAIN tasks :
          /\ tasks[id].status = "dead_letter"
          /\ id \notin Range(errorState.deadLetterQueue)

\* the delay before the cap is applied
Uncapped(retryCount) ==
    strategies.exponential.baseDelay * Pow(strategies.exponential.multiplier, retryCount)

\* C19: for the exponential strategy, of two calls the one with the smaller
\* retryCount, its delay not yet cut by the cap, never gets the longer
\* delay, whatever Math.random() returned in either call.
C19_ExponentialDelayNonDecreasing ==
    \A i, j \in 1..Len(delayCalls) :
        ( /\ delayCalls[i].strategy = "exponential"
          /\ delayCalls[j].strategy = "exponential"
          /\ delayCalls[i].retryCount < delayCalls[j].retryCount
          /\ Uncapped(delayCalls[i].retryCount) <= strategies.exponential.maxDelay )
        => delayCalls[i].delay <= delayCalls[j].delay

\* two calls: the earlier retry with the largest jitter, the later one, at
\* the cap, with none
C19_Witness ==
    /\ Len(delayCalls) = 2
    /\ delayCalls[1].strategy = "exponential"
    /\ delayCalls[2].strategy = "exponential"
    /\ delayCalls[1].retryCount < delayCalls[2].retryCount
    /\ delayCalls[1].random = RandomSteps - 1
    /\ delayCalls[2].random = 0
    /\ delayCalls[1].delay > Uncapped(delayCalls[1].retryCount)
    /\ delayCalls[2].delay = strategies.exponential.maxDelay

\* the tasks that wait in the queue or in the pending batch
PendingTasks == {id \in Range(queue) \cup Range(pendingBatch) : tasks[id].status = "pending"}

\* the pending tasks that were enqueued for coalescing under the key
PendingWithKey(key) ==
    {id \in PendingTasks : tasks[id].canCoalesce /\ tasks[id].coalescingKey = key}

\* C20: a call of enqueueSync that names the coalescing key of a task still
\* pending creates no task: it returns the id of that task, whose data is
\* then the merge of both payloads (the newer fields win) and whose priority
\* is the larger of the two.
C20_CoalescesIntoPendingTask ==
    [][\A data \in Payloads, priority \in Priorities, options \in Options,
          old \in OldSets(SQ) :
          ( /\ EnqueueStep(data, priority, options, old)
            /\ options.canCoalesce
            /\ options.coalescingKey # "none"
            /\ PendingWithKey(options.coalescingKey) # {} )
          => LET ret == enqueueSync(SQ, "update", data, priority, options, old).ret IN
             /\ ret \in PendingWithKey(options.coalescingKey)
             /\ Range(queue') \cup Range(pendingBatch') \subseteq Range(queue) \cup Range(pendingBatch)
             /\ tasks'[ret].data = MergeData(tasks[ret].data, data)
             /\ tasks'[ret].priority = Max(tasks[ret].priority, priority)]_vars

\* C21: a mutation enqueueSync accepts ends up on a task that will still be
\* dispatched: the task whose id the call returns is waiting in the queue or
\* in the pending batch, or is in flight, or has a retry timer, or has been
\* dead-lettered; it is never a task that has already completed nor one
\* that no container holds.
C21_AcceptedMutationIsStillDispatched ==
    [][\A data \in Payloads, priority \in Priorities, options \in Options,
          old \in OldSets(SQ) :
          EnqueueStep(data, priority, options, old)
          => LET ret == enqueueSync(SQ, "update", data, priority, options, old).ret IN
             \/ ret \in Range(queue') \cup Range(pendingBatch')
             \/ ret \in Range(inFlight')
             \/ ret \in retryTimers'
             \/ ret \in Range(errorState'.deadLetterQueue)]_vars

\* forceSync returns true in this step
ForceSyncReturnsTrue ==
    /\ ForceSync \/ ForceBatchSettles
    /\ ~forceSyncCall'.active
    /\ forceSyncCall'.ret = "true"

\* C22: forceSync dispatches whatever the scheduling: called with tasks in
\* the queue it takes a batch even when the queue is paused or a pass of the
\* processing timer is under way, and when it returns true the main queue is
\* empty and every task that was in the queue at the call has been dispatched.
C22_ForceSyncDrainsQueue ==
    [][/\ ForceSync /\ queue # <<>> => forceSyncCall'.batch # <<>>
       /\ ForceSyncReturnsTrue => queue' = <<>> /\ undispatched' = {}]_vars

\* forceSync was called while paused with a pass under way, dispatched tasks
\* and has returned true
C22_Witness ==
    /\ forceSyncCall.ret = "true"
    /\ forceSyncCall.wasProcessing
    /\ forceSyncCall.processedCount >= 2
    /\ paused

\* the read of phase 0 that startPreload awaits fails or times out in this step
Phase0ReadFails ==
    /\ preloadCall.from = "start"
    /\ \E answer \in StoreAnswers(preloadCall.config.phases[1].size) :
          answer.error # "none" /\ FetchStep(answer)

\* C23: when the read of phase 0 fails or times out, startPreload resolves to
\* false and the error is surfaced: the status is error, not loading, and the
\* failure has gone through the error handling (preload_error emitted).
C23_Phase0FailureIsSurfaced ==
    [][Phase0ReadFails =>
          /\ preloadReturn'.value = FALSE
          /\ status'.status = "error"
          /\ "preload_error" \in preloadEvents']_vars

\* C24: a bootstrap that is loading ends completed or in error.  In finite
\* form: while the status is loading with every phase loaded (progress 100),
\* a step of the service is still pending that can complete it; with nothing
\* awaited and no timer set the status stays loading for ever.
C24_LoadedBootstrapCompletes ==
    (status.status = "loading" /\ status.progress = 100) => preloadCall.pc # "none"

\* the read of phase 0 fails with an error of a recoverable class in this step
Phase0ReadFailsRecoverably ==
    /\ preloadCall.from = "start"
    /\ \E answer \in StoreAnswers(preloadCall.config.phases[1].size) :
          /\ answer.error \in ErrorTypes \ {"permission", "memory"}
          /\ FetchStep(answer)

\* C25: at most maxRecoveryAttempts recovery cycles are started, and a
\* bootstrap that fails with a recoverable error is followed up by the service
\* itself: while attempts remain a recovery is scheduled, and once they are
\* exhausted the minimal mode (one phase of 5 records) is started.
C25_RecoveryBoundedThenMinimalMode ==
    [][/\ preloadErrorState'.recoveryAttempts <= maxRecoveryAttempts
       /\ Phase0ReadFailsRecoverably =>
             IF preloadErrorState'.recoveryAttempts < maxRecoveryAttempts
             THEN recoveryTimer'
             ELSE \/ recoveryTimer'
                  \/ /\ preloadCall'.pc = "fetch"
                     /\ preloadCall'.config = minimalMode]_vars

\* the read of the one phase of the minimal mode fails in this step
MinimalModeReadFails ==
    /\ preloadCall.via = "fallback"
    /\ preloadCall.from = "start"
    /\ \E answer \in StoreAnswers(preloadCall.config.phases[1].size) :
          answer.error # "none" /\ FetchStep(answer)

\* C26: when the bootstrap in minimal mode fails too, the offline mode is
\* activated: the status is completed with progress 100, offline_mode_started
\* is emitted and the result tells whether the cache holds records.
C26_OfflineModeAfterMinimalModeFails ==
    [][MinimalModeReadFails =>
          /\ status'.status = "completed"
          /\ status'.progress = 100
          /\ "offline_mode_started" \in preloadEvents'
          /\ preloadReturn' = [call |-> "fallback", value |-> totalRecords' > 0]]_vars

\* C29: the loadedRecords counter of the bootstrapper equals the number of
\* records its phases have put into the cache since the bootstrap started:
\* records the cache rejected or already held are not counted.
C29_LoadedRecordsCountsInsertions ==
    status.loadedRecords = insertedRecords

\* what the cap of the normal tier in _evictIfNeeded, applied to S, drops is
\* not younger than what it keeps: every record dropped has a fifo_order no
\* greater than that of every record left in the normal tier
CapDropsOldest(S) ==
    LET E == _evictIfNeeded(S)
        kept == Range(S.normalRecords) \cap Range(E.normalRecords)
        dropped == Range(S.normalRecords) \ Range(E.normalRecords)
    IN  ~E.hung =>
           \A d \in dropped, k \in kept :
               S.records[d].fifo_order <= S.records[k].fifo_order

\* the cache of prependRecord at its call of _evictIfNeeded
PrependedCache(record) ==
    LET S0 == [Cache EXCEPT !.fifoCounter = @ + 1] IN
    [Put(S0, _enhanceRecord(Cache, record, now)) EXCEPT
        !.normalRecords = <<record.id>> \o @,
        !.totalRecords = @ + 1]

\* C27: whenever the cap of the normal tier drops a record, it is the one
\* with the smallest fifoOrder among the records then in the normal tier,
\* whether the tier was filled by prependRecord or by appendRecords.
C27_NormalCapDropsSmallestFifoOrder ==
    [][/\ \A record \in PlainRecords :
             (PrependStep(record) /\ validate(record) /\ ~_recordExists(Cache, record.id))
             => CapDropsOldest(PrependedCache(record))
       /\ \A batch \in UNION {[1..n -> PlainRecords] : n \in 0..MaxBatch} :
             AppendStep(batch) => CapDropsOldest(AppendAll(Cache, batch, now))]_vars

\* the records this step takes out of the hot tier
LeavesHot == Range(hotRecords) \ Range(hotRecords')

\* no hot record that stays was accessed longer ago than r: each is listed
\* in lruOrder (most recent first) before r
LeastRecentlyAccessed(r) ==
    \A h \in (Range(hotRecords) \cap Range(hotRecords')) \ {r} :
        /\ IndexOf(lruOrder, h) # 0
        /\ IndexOf(lruOrder, h) < IndexOf(lruOrder, r)

\* C28: when the hot tier is reduced for its limit (by _evictIfNeeded after
\* an insertion, or by a promotion into a full tier), the record removed is
\* the least recently accessed hot record and it is demoted, not dropped:
\* after the step it is in the normal tier with cache_tier normal.
C28_HotLimitDemotesLeastRecentlyAccessed ==
    [][(PrependPlain \/ AppendPlain \/ RecordAccess) /\ ~hung' =>
          \A r \in LeavesHot :
              /\ r \in Range(normalRecords')
              /\ records'[r].cache_tier = "normal"
              /\ LeastRecentlyAccessed(r)]_vars

\* C30: the LRU order list contains exactly the ids of the records of the hot
\* tier, each once.
C30_LruOrderListsHotTier ==
    /\ Range(lruOrder) = Range(hotRecords)
    /\ \A i, j \in 1..Len(lruOrder) : lruOrder[i] = lruOrder[j] => i = j

\* C31: after every public cache operation that has returned, the total
\* getTierStats reports (stats.totalRecords) equals the favorite count plus
\* the hot count plus the normal count.
C31_TotalEqualsTierCounts ==
    ~hung => totalRecords = Len(favoriteRecords) + Len(hotRecords) + Len(normalRecords)

\* every task of the batch in flight completes successfully
AllTasksSucceed == inFlight # <<>> /\ BatchSucceeds

\* C32: a task that completes successfully resets consecutiveFailures to 0,
\* so that only failures with no success between them count towards
\* circuitBreakerThreshold: after a batch whose tasks all succeed the
\* counter is 0.
C32_SuccessResetsConsecutiveFailures ==
    [][AllTasksSucceed => errorState'.consecutiveFailures = 0]_vars

\* the key _tryCoalesceTask looks up for a call with these arguments
CallKey(data, options) ==
    KeyOf([coalescingKey |-> options.coalescingKey, type |-> "update", data |-> data])

\* C33: when enqueueSync merges a payload into a registered task, that task
\* has not been dispatched yet: it waits in the main queue or in the pending
\* batch, and is not processing, completed, dead-lettered or removed.
C33_CoalescesOnlyIntoUndispatchedTask ==
    [][\A data \in Payloads, priority \in Priorities, options \in Options,
          old \in OldSets(SQ) :
          ( /\ EnqueueStep(data, priority, options, old)
            /\ options.canCoalesce
            /\ CallKey(data, options) \in DOMAIN coalescingMap )
          => LET existingTask == coalescingMap[CallKey(data, options)] IN
             /\ existingTask \in Range(queue') \cup Range(pendingBatch')
             /\ tasks'[existingTask].status = "pending"]_vars

\* C37: after clearQueue has returned, no task that was waiting when it was
\* called (in the main queue, in the pending batch or for its retry timer)
\* is in the main queue again or is dispatched.
C37_ClearedTasksAreNeverDispatched ==
    \A id \in cleared : id \notin Range(queue) /\ id \notin Range(inFlight)

\* C34: the processing flag is true only while a pass is running: once
\* neither the timer-driven processSyncQueue nor forceSync is in flight,
\* the flag is false.
C34_ProcessingFlagFalseWhenNoPassRuns ==
    (~forceSyncCall.active /\ inFlight = <<>>) => ~processing

\* how often a sequence of task ids holds id
CountIn(s, id) == Cardinality({i \in DOMAIN s : s[i] = id})

\* how many slots of the out-of-band batches hold id
CountOutOfBand(id) ==
    Cardinality({p \in UNION {{<<b, i>> : i \in DOMAIN b} : b \in outOfBand} :
                    p[1][p[2]] = id})

\* in how many places a task is: slots of the main queue, of the pending
\* batch, of the batches in flight (timer pass, forceSync, out of band) and
\* of the dead-letter queue, plus one if it waits for its retry timer
Places(id) ==
    CountIn(queue, id) + CountIn(pendingBatch, id) + CountIn(inFlight, id)
        + CountIn(forceSyncCall.batch, id) + CountOutOfBand(id)
        + CountIn(errorState.deadLetterQueue, id)
        + (IF id \in retryTimers /\ tasks[id].status = "retrying" THEN 1 ELSE 0)

\* C35: each task is at any moment in at most one of main queue, pending
\* batch, a batch in flight, waiting for a retry timer, dead-letter queue;
\* so no task is dispatched twice at once or is twice in the main queue.
C35_TaskInAtMostOnePlace == \A id \in DOMAIN tasks : Places(id) <= 1

\* C35 witness: the timer pass, forceSync and an out-of-band batch each have
\* tasks in flight at the same moment.
C35_Witness == inFlight # <<>> /\ forceSyncCall.batch # <<>> /\ outOfBand # {}

\* the tasks dispatched by a path other than forceSync and still in flight
DispatchedWithoutForce ==
    Range(inFlight) \cup UNION {Range(b) : b \in outOfBand}

\* C36: while the queue is paused, no task is dispatched by a path other
\* than forceSync: a step taken while paused adds no task to the batch of
\* the timer pass nor to an out-of-band batch.
C36_PausedDispatchesNothing ==
    [][paused => DispatchedWithoutForce' \subseteq DispatchedWithoutForce]_vars

\* C38: in every reachable state the main queue holds at most maxQueueSize
\* tasks, whatever enqueueSync calls, pending-batch flushes and retry
\* re-insertions have happened.
C38_QueueWithinMaxQueueSize == Len(queue) <= maxQueueSize

\* the window of store rows phase phaseIndex of a run with this config asks for
Window(phaseIndex, config) ==
    [ limit |-> _adjustBatchSize(config.phases[phaseIndex + 1].size, config.performanceMode),
      offset |-> _calculatePhaseOffset(phaseIndex, config) ]

\* C39: in every performance mode the windows successive phases read are
\* contiguous: the read of phase k starts at the row right after the last
\* row the read of phase k-1 asked for.
C39_PhaseWindowsContiguous ==
    (preloadCall.pc = "fetch" /\ preloadCall.phaseIndex >= 1)
        => LET previous == Window(preloadCall.phaseIndex - 1, preloadCall.config) IN
           preloadCall.read.offset = previous.offset + previous.limit

\* a run was started and stopPreload has returned: the status is idle again
Stopped == status.status = "idle" /\ preloadCall.starts > 0

\* C40: after stopPreload has returned the stopped run does nothing more: as
\* long as no new run is started, no phase issues a read of the store,
\* nothing is appended to the cache and the status does not change.
C40_StoppedRunDoesNothing ==
    [][(Stopped /\ preloadCall'.starts = preloadCall.starts)
          => /\ preloadCall'.pc = "fetch" => preloadCall.pc = "fetch"
             /\ UNCHANGED <<favoriteRecords, hotRecords, normalRecords, records>>
             /\ status' = status]_vars

====
